---- MODULE Spec2Model ----
(***************************************************************************)
(* Tenant-aware entity synchronization engine of nkz-module-odoo:          *)
(* backend/app/services/{ngsi_sync,database,odoo_client}.py and            *)
(* backend/app/routers/{tenant,sync,webhook}.py.                           *)
(*                                                                         *)
(* Every request handler is a process; it takes one step per external call *)
(* (an await on the platform database, the ERP or the context broker),     *)
(* which are the only points where asyncio can interleave two handlers.    *)
(***************************************************************************)
EXTENDS Integers, Sequences, FiniteSets, TLC

\* ------------------------------------------------------------- bounds
Procs == {1, 2}
Tenants == {"t1", "t2"}
\* the tenant that sends the requests where one tenant is enough
OneTenant == {"t1"}
EntityIds == {"e1", "e2"}
\* declared types carried by incoming snapshots ("Robot" has no routing entry)
SnapshotTypes == {"AgriParcel", "Device", "Robot"}
\* the name property of a snapshot: absent, or a {value: ...} wrapper
NameProps == {[kind |-> "absent", v |-> ""], [kind |-> "wrapped", v |-> "Field A"]}
\* tenant ids as texts: the words between the separators ":" and "-", and how many
\* parts a tenant id has between ":" and each of those between "-"
Words == {"farm", "7"}
MaxColonParts == 2
MaxDashParts == 2
\* install_modules calls made in one behaviour of their specification
MaxInstallCalls == 3
MaxRegisterOps == 3
MaxAbortRuns == 2
MaxWorkflowEvents == 2
MaxClassifyOps == 2
MaxTransformCalls == 1
MaxPostsKept == 12
\* requests handled in one behaviour of the specification of decommission and re-provisioning
MaxReprovisionOps == 4
\* requests handled in one behaviour of the specification of all the engine's operations
MaxEngineOps == 3
\* notifications and foreign ERP events handled in one behaviour of the specification of the ERP-side hooks
MaxHookOps == 2
\* gateway calls made in one behaviour of the gateway specification
MaxGatewayCalls == 3
\* single-entity sync requests handled in one behaviour of their specification
MaxDirectOps == 2
\* requests handled in one behaviour of the fair lifecycle specification
MaxLiveOps == 2
\* full synchronization runs in one behaviour of the specification of repeated runs
MaxStatusRuns == 2
\* requests handled in one behaviour of the lifecycle specification
MaxOps == 3
\* notifications handled in one behaviour of the concurrent synchronization specification
MaxSyncOps == 2
\* requests handled in one behaviour of the one-request-at-a-time specification
MaxSeqOps == 2
\* full syncs triggered in one behaviour of the full-sync specification
MaxFullSyncs == 1
\* entities in one notification / one fetched page, one request at a time
MaxBatch == 2
\* entities in one notification of the concurrent synchronization specification
MaxSyncBatch == 1
\* calls the environment (ERP, broker, database) makes fail in one behaviour
MaxFaults == 1

\* ------------------------------------------------------------- constants of the code
NGSI_TO_ODOO_MODEL ==
    [AgriParcel |-> "product.template",
     Device |-> "maintenance.equipment",
     Building |-> "res.partner",
     EnergyMeter |-> "energy.meter",
     SolarPanel |-> "energy.installation",
     WeatherStation |-> "maintenance.equipment"]

\* NGSI_TO_ODOO_MODEL.keys(), in the dict's insertion order
RoutingTypes ==
    <<"AgriParcel", "Device", "Building", "EnergyMeter", "SolarPanel", "WeatherStation">>

ODOO_TEMPLATE_DB == "nkz_odoo_template"

NoValue == "None"

\* a lookup with a default model: NGSI_TO_ODOO_MODEL.get(entity_type, "product.template")
ClassifyWithDefault(entity_type) ==
    IF entity_type \in DOMAIN NGSI_TO_ODOO_MODEL
    THEN NGSI_TO_ODOO_MODEL[entity_type]
    ELSE "product.template"

\* a routing table without the entry of WeatherStation
ClassifyWithoutWeatherStation(entity_type) ==
    IF entity_type \in DOMAIN NGSI_TO_ODOO_MODEL \ {"WeatherStation"}
    THEN NGSI_TO_ODOO_MODEL[entity_type]
    ELSE NoValue

\* NGSI_TO_ODOO_MODEL.get(entity_type)
Classify(entity_type) ==
    IF entity_type \in DOMAIN NGSI_TO_ODOO_MODEL
    THEN NGSI_TO_ODOO_MODEL[entity_type]
    ELSE NoValue

OdooModels == {NGSI_TO_ODOO_MODEL[k] : k \in DOMAIN NGSI_TO_ODOO_MODEL}

\* the models the workflow handlers write (n8n_integration.py lines 144, 201, 243)
WorkflowModels == {"account.move", "sale.order", "energy.reading", "energy.meter.reading"}

ErpModels == OdooModels \cup WorkflowModels

\* one database name for every tenant
TenantDbNameShared(tenant_id) == "nkz_odoo_" \o "shared"

\* f"nkz_odoo_{tenant_id}"
TenantDbName(tenant_id) == "nkz_odoo_" \o tenant_id

DbNames == {TenantDbName(t) : t \in Tenants} \cup {ODOO_TEMPLATE_DB}

\* ------------------------------------------------------------- snapshots
Snapshots == [id : EntityIds, type : SnapshotTypes, name : NameProps]

\* the snapshots of one entity id, of a routed and of an unrouted type
OneEntity == {e \in Snapshots : e.id = "e1" /\ e.type \in {"AgriParcel", "Robot"}}

\* the snapshots the context broker serves: routed types, named
Fetchable == {e \in Snapshots : e.type # "Robot" /\ e.name.kind = "wrapped"}

\* declared types a snapshot can carry: those of the routing table, one without an
\* entry, one that differs from an entry in case, and none (entity.get("type") is None)
ClassifiedTypes == {RoutingTypes[k] : k \in 1..Len(RoutingTypes)}
                      \cup {"Robot", "agriparcel", NoValue}

\* one named entity under every declared type
TypedSnapshots ==
    {[id |-> "e1", type |-> ty, name |-> [kind |-> "wrapped", v |-> "Field A"]] :
        ty \in ClassifiedTypes}

\* the parcels served by the context broker
Parcels == {e \in Fetchable : e.type = "AgriParcel"}

\* one entity served by the context broker
OneFetchable == {e \in Fetchable : e.id = "e1" /\ e.type = "AgriParcel"}

\* _get_property_value(entity, "name")
GetNameProperty(entity) ==
    IF entity.name.kind = "absent" THEN NoValue ELSE entity.name.v

\* _transform_to_odoo: the base values (name, x_ngsi_id)
TransformToOdoo(entity) ==
    LET n == GetNameProperty(entity)
    IN [name |-> IF n = NoValue THEN entity.id ELSE n,
        x_ngsi_id |-> entity.id]

\* ------------------------------------------------------------- state
VARIABLES
    tenantInfo,     \* table odoo_tenant_info: tenant -> row or NoRow
    mappings,       \* table odoo_entity_mappings: the rows, in insertion order
    syncStatus,     \* table odoo_sync_status: tenant -> row or NoRow
    odoo,           \* the ERP server: database name -> database or NoDb
    subscriptions,  \* the context broker: the subscriptions registered, <<tenant, type>>
    now,            \* datetime.utcnow(), a logical clock
    pc,             \* each handler's position
    loc,            \* each handler's local variables
    creates,        \* history: ERP creates issued by sync_entity_to_odoo, per (tenant, entity id)
    returned,       \* history: the ids returned by sync_entity_to_odoo calls, per key, in order
    raised,         \* history: whether a sync_entity_to_odoo call for the key raised
    opsLeft,        \* requests still to arrive in this behaviour
    faultsLeft,     \* calls the environment may still make fail in this behaviour
    callers,        \* the tenants whose requests arrive in this behaviour
    pool,           \* the entity snapshots that may arrive in this behaviour
    maxLen,         \* the longest notification / page that may arrive in this behaviour
    trip,           \* a subscription identifier on its way from registration to the webhook
    gw,             \* the ERP gateway seen call by call: credentials, client objects, requests sent
    posts,          \* history: the broker's answers to register_tenant_subscriptions, the first posts.keep of them
    hooks           \* the events posted by the ERP-side hooks: those waiting for a handler, and how many were posted

vars == <<tenantInfo, mappings, syncStatus, odoo, subscriptions, now, pc, loc,
          creates, returned, raised, opsLeft, faultsLeft, callers, pool, maxLen, trip, gw, posts,
          hooks>>

stores == <<tenantInfo, mappings, syncStatus, odoo, subscriptions>>
history == <<creates, returned, raised, callers, pool, maxLen, trip, gw, posts, hooks>>

\* no row of odoo_tenant_info / odoo_sync_status for the tenant
NoRow ==
    [status |-> "absent", name |-> NoValue, database |-> NoValue,
     energy_modules_enabled |-> FALSE, installed_modules |-> <<>>,
     admin_email |-> NoValue, created_at |-> NoValue, error |-> NoValue]
NoStatus == [status |-> "absent", last_sync |-> 0, entities_synced |-> 0, errors |-> <<>>]
NoDb == [exists |-> FALSE]
Keys == Tenants \X EntityIds

\* a freshly duplicated template database: no records, every id sequence at 1
TemplateDb ==
    [exists |-> TRUE, records |-> {}, next_id |-> [m \in ErpModels |-> 1],
     modules |-> {}, users |-> {}]

\* the loop variable before the first iteration
NoEntity == [id |-> NoValue, type |-> NoValue, name |-> [kind |-> "absent", v |-> ""]]

IdleLoc ==
    [op |-> "none", tenant |-> NoValue, n |-> 0, i |-> 0, ti |-> 0, seen |-> {},
     synced |-> 0, errors |-> <<>>,
     attempted |-> 0, fetched |-> 0, failed |-> 0, fetch_errors |-> 0, fetch_rejected |-> 0, ok |-> {},
     subscription_id |-> <<>>,
     entity |-> NoEntity, odoo_model |-> NoValue, db_name |-> NoValue,
     existing |-> <<>>, odoo_id |-> 0, caller |-> NoValue,
     energy |-> FALSE, steps |-> <<>>, error |-> NoValue, result |-> NoValue,
     event |-> NoValue, arg |-> NoValue, erp_calls |-> 0, values |-> <<>>]

\* a client object as OdooClient.__init__ leaves it (_uid is None), before any call
NoClient == [at |-> "none", call |-> 0, op |-> NoValue, db |-> NoValue,
             uid |-> 0, auth_call |-> 0, auth_db |-> NoValue, sent |-> 0,
             modules |-> <<>>, module_ids |-> {}]

\* no gateway call is looked at: no client object, no request sent
NoGateway == [accepts |-> {}, client |-> [p \in Procs |-> NoClient], log |-> <<>>,
              completed |-> {}]

\* no answer of the broker is kept
NoPosts == [keep |-> 0, answers |-> <<>>]

\* the ERP-side hooks are not looked at: no event is kept
NoHooks == [on |-> FALSE, queue |-> <<>>, emitted |-> 0]

\* no subscription identifier is on its way
NoTrip == [at |-> "none", tenant_id |-> <<>>, entity_type |-> NoValue,
           subscription_id |-> <<>>, tenant |-> NoValue]

Init ==
    /\ tenantInfo = [t \in Tenants |-> NoRow]
    /\ mappings = <<>>
    /\ syncStatus = [t \in Tenants |-> NoStatus]
    /\ odoo = [d \in DbNames |-> IF d = ODOO_TEMPLATE_DB THEN TemplateDb ELSE NoDb]
    /\ subscriptions = {}
    /\ now = 1
    /\ pc = [p \in Procs |-> "idle"]
    /\ loc = [p \in Procs |-> IdleLoc]
    /\ creates = [k \in Keys |-> 0]
    /\ returned = [k \in Keys |-> <<>>]
    /\ raised = [k \in Keys |-> FALSE]
    /\ opsLeft = MaxOps
    /\ faultsLeft = MaxFaults
    /\ callers = OneTenant
    /\ pool = {}
    /\ maxLen = 0
    /\ trip = NoTrip
    /\ posts = NoPosts
    /\ hooks = NoHooks
    /\ gw = NoGateway

\* ------------------------------------------------------------- platform database
\* get_tenant_odoo_info
GetTenantOdooInfo(tenant_id) == tenantInfo[tenant_id]

\* the type filter without the tenant filter: WHERE ngsi_type = $2
GetEntityMappingsByTypeOnly(table, tenant_id, ngsi_type) ==
    IF ngsi_type # NoValue
    THEN SelectSeq(table, LAMBDA r : r.ngsi_type = ngsi_type)
    ELSE SelectSeq(table, LAMBDA r : r.tenant_id = tenant_id)

\* the rows a SELECT ... WHERE tenant_id = $1 [AND ngsi_type = $2] returns
GetEntityMappings(table, tenant_id, ngsi_type) ==
    IF ngsi_type # NoValue
    THEN SelectSeq(table, LAMBDA r : r.tenant_id = tenant_id /\ r.ngsi_type = ngsi_type)
    ELSE SelectSeq(table, LAMBDA r : r.tenant_id = tenant_id)

\* the rows a SELECT ... WHERE tenant_id = $1 AND ngsi_id = $2 matches
MappingRowsByNgsiId(table, tenant_id, ngsi_id) ==
    SelectSeq(table, LAMBDA r : r.tenant_id = tenant_id /\ r.ngsi_id = ngsi_id)

\* get_entity_mapping_by_ngsi_id: fetchrow, <<>> for None
GetEntityMappingByNgsiId(table, tenant_id, ngsi_id) ==
    LET rows == MappingRowsByNgsiId(table, tenant_id, ngsi_id)
    IN IF rows = <<>> THEN <<>> ELSE <<rows[1]>>

\* INSERT ... ON CONFLICT (tenant_id, ngsi_id) DO NOTHING: the first writer wins
CreateEntityMappingDoNothing(table, tenant_id, m) ==
    IF \E i \in 1..Len(table) :
          table[i].tenant_id = tenant_id /\ table[i].ngsi_id = m.ngsi_id
    THEN table
    ELSE Append(table, [tenant_id |-> tenant_id, ngsi_id |-> m.ngsi_id,
                        ngsi_type |-> m.ngsi_type, odoo_id |-> m.odoo_id,
                        odoo_model |-> m.odoo_model, odoo_name |-> m.odoo_name,
                        last_sync |-> m.last_sync])

\* a plain INSERT, without the ON CONFLICT clause
CreateEntityMappingInsertOnly(table, tenant_id, m) ==
    Append(table, [tenant_id |-> tenant_id, ngsi_id |-> m.ngsi_id,
                   ngsi_type |-> m.ngsi_type, odoo_id |-> m.odoo_id,
                   odoo_model |-> m.odoo_model, odoo_name |-> m.odoo_name,
                   last_sync |-> m.last_sync])

\* create_entity_mapping: INSERT ... ON CONFLICT (tenant_id, ngsi_id) DO UPDATE
CreateEntityMapping(table, tenant_id, m) ==
    IF \E i \in 1..Len(table) :
          table[i].tenant_id = tenant_id /\ table[i].ngsi_id = m.ngsi_id
    THEN [i \in 1..Len(table) |->
            IF table[i].tenant_id = tenant_id /\ table[i].ngsi_id = m.ngsi_id
            THEN [table[i] EXCEPT !.odoo_id = m.odoo_id, !.odoo_model = m.odoo_model,
                                  !.odoo_name = m.odoo_name, !.last_sync = m.last_sync]
            ELSE table[i]]
    ELSE Append(table, [tenant_id |-> tenant_id, ngsi_id |-> m.ngsi_id,
                        ngsi_type |-> m.ngsi_type, odoo_id |-> m.odoo_id,
                        odoo_model |-> m.odoo_model, odoo_name |-> m.odoo_name,
                        last_sync |-> m.last_sync])

\* ------------------------------------------------------------- ERP gateway
\* the environment may still make a call fail
CanFault == faultsLeft > 0

\* authenticate("admin", "admin") on the database: it must be named and exist
CanAuthenticate(db_name) == db_name \in DbNames /\ odoo[db_name].exists

RecordExists(db_name, model, record_id) ==
    \E r \in odoo[db_name].records : r.model = model /\ r.id = record_id

\* create_record: execute(model, "create", values); the id comes from the model's sequence
\* (created_for is history: the entity the record was created for)
OdooCreateRecord(db, model, values) ==
    [db EXCEPT !.records = @ \cup {[model |-> model, id |-> db.next_id[model],
                                    name |-> values.name, x_ngsi_id |-> values.x_ngsi_id,
                                    created_for |-> values.x_ngsi_id]},
               !.next_id[model] = @ + 1]

\* update_record: execute(model, "write", [record_id], values)
OdooUpdateRecord(db, model, record_id, values) ==
    [db EXCEPT !.records =
        {IF r.model = model /\ r.id = record_id
         THEN [r EXCEPT !.name = values.name, !.x_ngsi_id = values.x_ngsi_id]
         ELSE r : r \in @}]

\* ------------------------------------------------------------- ERP gateway, call by call
\* the record operations of OdooClient (lines 260-326)
RecordOps == {"create", "update", "read", "search"}

\* the uid the ERP answers for the login "admin"
AdminUid == 2

\* the record a gateway call of the gateway specification writes
GatewayModel == "res.partner"
GatewayValues == [name |-> "Field A", x_ngsi_id |-> "e1"]

\* what execute_kw does to the database for each record operation
OdooExecute(db, op) ==
    CASE op = "create" -> OdooCreateRecord(db, GatewayModel, GatewayValues)
      [] op = "update" -> OdooUpdateRecord(db, GatewayModel, 1, GatewayValues)
      [] OTHER -> db

\* a call that goes on with the client object of the call before it on the same
\* database, uid included, instead of building and authenticating a new one
GatewayCallReusesClient(p) ==
    /\ gw.client[p].at = "none"
    /\ opsLeft > 0
    /\ \E op \in RecordOps, t \in callers :
         LET old == gw.client[p]
             call == MaxGatewayCalls - opsLeft + 1
         IN gw' = [gw EXCEPT !.client[p] =
                      IF old.uid # 0 /\ old.db = TenantDbName(t)
                      THEN [old EXCEPT !.at = "authenticated", !.call = call, !.op = op,
                                       !.sent = 0]
                      ELSE [NoClient EXCEPT !.at = "new", !.call = call, !.op = op,
                                            !.db = TenantDbName(t)]]
    /\ opsLeft' = opsLeft - 1
    /\ UNCHANGED <<stores, now, pc, loc, creates, returned, raised, faultsLeft,
                   callers, pool, maxLen, trip, posts, hooks>>

\* create_record / update_record / read_record / search_records is called:
\* client = OdooClient(database=db_name) (lines 267, 281, 295, 316)
GatewayCall(p) ==
    /\ gw.client[p].at = "none"
    /\ opsLeft > 0
    /\ \E op \in RecordOps, t \in callers :
         gw' = [gw EXCEPT !.client[p] =
                   [NoClient EXCEPT !.at = "new", !.call = MaxGatewayCalls - opsLeft + 1,
                                    !.op = op, !.db = TenantDbName(t)]]
    /\ opsLeft' = opsLeft - 1
    /\ UNCHANGED <<stores, now, pc, loc, creates, returned, raised, faultsLeft,
                   callers, pool, maxLen, trip, posts, hooks>>

\* client.authenticate("admin", "admin") (lines 44-69): the uid is kept in the client
\* object when the ERP accepts the pair for the database, ValueError otherwise
GatewayAuthenticate(p) ==
    /\ gw.client[p].at = "new"
    /\ LET c == gw.client[p]
       IN IF odoo[c.db].exists /\ c.db \in gw.accepts
          THEN gw' = [gw EXCEPT !.client[p] =
                         [c EXCEPT !.at = "authenticated", !.uid = AdminUid,
                                   !.auth_call = c.call, !.auth_db = c.db]]
          ELSE gw' = [gw EXCEPT !.client[p] = [c EXCEPT !.at = "failed"]]
    /\ UNCHANGED <<stores, now, pc, loc, creates, returned, raised, opsLeft, faultsLeft,
                   callers, pool, maxLen, trip, posts, hooks>>

\* client.execute(model, method, ...) (lines 71-102): execute_kw carries the database,
\* the uid and the password, which the ERP checks again
GatewayExecute(p) ==
    /\ gw.client[p].at = "authenticated"
    /\ gw.client[p].op \in RecordOps
    /\ LET c == gw.client[p]
       IN IF c.uid = 0
          THEN /\ gw' = [gw EXCEPT !.client[p] = [c EXCEPT !.at = "failed"]]
               /\ UNCHANGED odoo
          ELSE IF odoo[c.db].exists /\ c.db \in gw.accepts
          THEN /\ gw' = [gw EXCEPT !.client[p] = [c EXCEPT !.at = "returned", !.sent = @ + 1],
                                   !.log = Append(@, [call |-> c.call, db |-> c.db,
                                                      op |-> c.op, ids |-> {}])]
               /\ odoo' = [odoo EXCEPT ![c.db] = OdooExecute(@, c.op)]
          ELSE /\ gw' = [gw EXCEPT !.client[p] = [c EXCEPT !.at = "failed", !.sent = @ + 1]]
               /\ UNCHANGED odoo
    /\ UNCHANGED <<tenantInfo, mappings, syncStatus, subscriptions, now, pc, loc,
                   creates, returned, raised, opsLeft, faultsLeft, callers, pool, maxLen, trip, posts, hooks>>

\* the call returns or raises: its client object is no longer referenced
GatewayReturn(p) ==
    /\ gw.client[p].at \in {"returned", "failed"}
    /\ gw' = [gw EXCEPT !.client[p].at = "none"]
    /\ UNCHANGED <<stores, now, pc, loc, creates, returned, raised, opsLeft, faultsLeft,
                   callers, pool, maxLen, trip, posts, hooks>>

\* the password of the login "admin" of a database is changed in the ERP
RevokeCredential ==
    /\ CanFault
    /\ faultsLeft' = faultsLeft - 1
    /\ \E db \in gw.accepts : gw' = [gw EXCEPT !.accepts = @ \ {db}]
    /\ UNCHANGED <<stores, now, pc, loc, creates, returned, raised, opsLeft,
                   callers, pool, maxLen, trip, posts, hooks>>

\* ------------------------------------------------------------- subscription identifiers
Lower(entity_type) ==
    CASE entity_type = "AgriParcel" -> "agriparcel"
      [] entity_type = "Device" -> "device"
      [] entity_type = "Building" -> "building"
      [] entity_type = "EnergyMeter" -> "energymeter"
      [] entity_type = "SolarPanel" -> "solarpanel"
      [] entity_type = "WeatherStation" -> "weatherstation"
      [] OTHER -> entity_type

\* tenant_id.split("-") for the tenant ids of the model
DashSplit(tenant_id) == <<tenant_id>>

RECURSIVE DashJoin(_)
DashJoin(parts) ==
    IF parts = <<>> THEN ""
    ELSE IF Len(parts) = 1 THEN parts[1]
    ELSE parts[1] \o "-" \o DashJoin(Tail(parts))

\* a text is kept as str.split(":") of it, each part as its str.split("-"): the text
\* "farm-7" is << <<"farm", "7">> >>, and "a:b" is << <<"a">>, <<"b">> >>
SeqsUpTo(S, n) == UNION {[1..k -> S] : k \in 1..n}

\* the tenant ids a request can carry (auth.py lines 130-147 take any non-empty string)
TenantIdTexts == SeqsUpTo(SeqsUpTo(Words, MaxDashParts), MaxColonParts)

RECURSIVE ColonJoin(_)
ColonJoin(parts) ==
    IF Len(parts) = 1 THEN DashJoin(parts[1])
    ELSE DashJoin(parts[1]) \o ":" \o ColonJoin(Tail(parts))

\* f"urn:ngsi-ld:Subscription:nkz-odoo-{tenant_id}-{entity_type.lower()}" for a tenant
\* id given as a text: "nkz-odoo-" runs into the first part of the tenant id between
\* ":", and its last part runs into "-" and the type
SubscriptionIdText(tenant_id, entity_type) ==
    LET k == Len(tenant_id)
    IN << <<"urn">>, <<"ngsi", "ld">>, <<"Subscription">> >> \o
       (IF k = 1
        THEN << <<"nkz", "odoo">> \o tenant_id[1] \o <<Lower(entity_type)>> >>
        ELSE << <<"nkz", "odoo">> \o tenant_id[1] >>
                \o SubSeq(tenant_id, 2, k - 1)
                \o << tenant_id[k] \o <<Lower(entity_type)>> >>)

\* the identifier for a tenant id of the model, which has no ":" in it
SubscriptionId(tenant_id, entity_type) ==
    SubscriptionIdText(<<DashSplit(tenant_id)>>, entity_type)

\* _extract_tenant_from_subscription
ExtractTenantFromSubscription(subscription_id) ==
    IF Len(subscription_id) >= 4
    THEN LET name_parts == subscription_id[Len(subscription_id)]
         IN IF Len(name_parts) >= 4 /\ name_parts[1] = "nkz" /\ name_parts[2] = "odoo"
            THEN DashJoin(SubSeq(name_parts, 3, Len(name_parts) - 1))
            ELSE NoValue
    ELSE NoValue

\* identifiers of subscriptions this service did not register
ForeignIds ==
    { << <<"nkz", "odoo", "farm", "agriparcel">> >>,
      << <<"urn">>, <<"ngsi", "ld">>, <<"nkz", "odoo", "farm", "agriparcel">> >>,
      << <<"urn">>, <<"ngsi", "ld">>, <<"Subscription">>, <<"nkz", "odoo", "agriparcel">> >>,
      << <<"urn">>, <<"ngsi", "ld">>, <<"Subscription">>, <<"other", "odoo", "farm", "agriparcel">> >>,
      << <<"urn">>, <<"ngsi", "ld">>, <<"Subscription">>, <<"nkz", "erp", "farm", "agriparcel">> >>,
      << <<"urn">>, <<"ngsi", "ld">>, <<"Subscription">>, <<"5f2a">> >> }

\* subscription ids carried by inbound notifications
SubscriptionIds == {SubscriptionId(t, "AgriParcel") : t \in callers} \cup ForeignIds

\* register_tenant_subscriptions builds the identifier of the subscription it posts
RegisterSubscription ==
    /\ trip.at = "none"
    /\ \E tenant_id \in TenantIdTexts, k \in 1..Len(RoutingTypes) :
         trip' = [NoTrip EXCEPT !.at = "registered", !.tenant_id = tenant_id,
                                !.entity_type = RoutingTypes[k],
                                !.subscription_id =
                                    SubscriptionIdText(tenant_id, RoutingTypes[k])]
    /\ UNCHANGED <<stores, now, pc, loc, creates, returned, raised, opsLeft, faultsLeft,
                   callers, pool, maxLen, gw, posts, hooks>>

\* a notification of a subscription registered by someone else reaches the webhook
ForeignSubscription ==
    /\ trip.at = "none"
    /\ \E subscription_id \in ForeignIds :
         trip' = [NoTrip EXCEPT !.at = "foreign", !.subscription_id = subscription_id]
    /\ UNCHANGED <<stores, now, pc, loc, creates, returned, raised, opsLeft, faultsLeft,
                   callers, pool, maxLen, gw, posts, hooks>>

\* the webhook parses notification.subscriptionId (webhook.py line 72)
ParseSubscription ==
    /\ trip.at \in {"registered", "foreign"}
    /\ trip' = [trip EXCEPT !.at = IF trip.at = "registered" THEN "parsed"
                                   ELSE "parsed_foreign",
                            !.tenant = ExtractTenantFromSubscription(trip.subscription_id)]
    /\ UNCHANGED <<stores, now, pc, loc, creates, returned, raised, opsLeft, faultsLeft,
                   callers, pool, maxLen, gw, posts, hooks>>

\* the next identifier
ForgetSubscription ==
    /\ trip.at \in {"parsed", "parsed_foreign"}
    /\ trip' = NoTrip
    /\ UNCHANGED <<stores, now, pc, loc, creates, returned, raised, opsLeft, faultsLeft,
                   callers, pool, maxLen, gw, posts, hooks>>

\* ------------------------------------------------------------- ERP-side hooks
\* the models whose create and write are overridden by the connector addon
\* (product_template.py lines 69-83, maintenance_equipment.py lines 78-92)
HookedModels == {"product.template", "maintenance.equipment"}

\* the payload of _trigger_nekazari_webhook (product_template.py lines 96-102)
HookPayload(event, model, record_id, database, ngsi_id) ==
    [event |-> "record." \o event, model |-> model, record_id |-> record_id,
     database |-> database, ngsi_id |-> ngsi_id]

\* create / write of a record: the hook posts one event when the record carries an
\* x_ngsi_id (the events are kept where the hooks are looked at)
TriggerNekazariWebhook(event, model, record_id, database, ngsi_id) ==
    IF hooks.on /\ model \in HookedModels /\ ngsi_id # NoValue
    THEN [hooks EXCEPT !.queue = Append(@, HookPayload(event, model, record_id,
                                                       database, ngsi_id)),
                       !.emitted = @ + 1]
    ELSE hooks

\* ------------------------------------------------------------- sync_entity_to_odoo
Key(p) == <<loc[p].tenant, loc[p].entity.id>>

\* sync_entity_to_odoo has returned or raised: its frame is gone
Returned(l) ==
    [l EXCEPT !.odoo_model = NoValue, !.db_name = NoValue,
              !.existing = <<>>, !.odoo_id = 0, !.caller = NoValue]

\* an except clause that leaves the loop: the rest of the batch is dropped
SyncRaisesBreaks(p, tag) ==
    /\ loc' = [loc EXCEPT ![p] = Returned([loc[p] EXCEPT
                          !.errors = Append(@, [what |-> loc[p].entity.id, err |-> tag]),
                          !.failed = @ + 1,
                          !.i = loc[p].n + 1])]
    /\ pc' = [pc EXCEPT ![p] = loc[p].caller]
    /\ raised' = [raised EXCEPT ![Key(p)] = TRUE]

\* no except clause inside the loop: the exception reaches the handler's outer clause,
\* which answers 500
SyncRaisesUncaught(p, tag) ==
    /\ loc' = [loc EXCEPT ![p] = Returned([loc[p] EXCEPT !.failed = @ + 1,
                                                         !.result = "error"])]
    /\ pc' = [pc EXCEPT ![p] = "done"]
    /\ raised' = [raised EXCEPT ![Key(p)] = TRUE]

\* the call raises: the caller's except appends the message and goes on with the loop
SyncRaises(p, tag) ==
    /\ loc' = [loc EXCEPT ![p] = Returned([loc[p] EXCEPT
                          !.errors = Append(@, [what |-> loc[p].entity.id, err |-> tag]),
                          !.failed = @ + 1,
                          !.i = @ + 1])]
    /\ pc' = [pc EXCEPT ![p] = loc[p].caller]
    /\ raised' = [raised EXCEPT ![Key(p)] = TRUE]

\* lines 129-137, up to the first await: entity_type is looked up in the routing table
\* before anything else is done
SyncClassify(p, entity, caller) ==
    LET odoo_model == Classify(entity.type)
    IN IF odoo_model = NoValue
       THEN /\ loc' = [loc EXCEPT ![p].entity = entity,
                                  ![p].attempted = @ + 1,
                                  ![p].failed = @ + 1,
                                  ![p].seen = @ \cup {entity.id},
                                  ![p].errors = Append(@, [what |-> entity.id,
                                                           err |-> "UnsupportedType"]),
                                  ![p].i = @ + 1]
            /\ pc' = [pc EXCEPT ![p] = caller]
            /\ raised' = [raised EXCEPT ![<<loc[p].tenant, entity.id>>] = TRUE]
       ELSE /\ loc' = [loc EXCEPT ![p].entity = entity,
                                  ![p].attempted = @ + 1,
                                  ![p].seen = @ \cup {entity.id},
                                  ![p].odoo_model = odoo_model,
                                  ![p].caller = caller]
            /\ pc' = [pc EXCEPT ![p] = "sync_getdb"]
            /\ UNCHANGED raised

\* _get_odoo_database (line 140)
SyncGetDatabase(p) ==
    /\ pc[p] = "sync_getdb"
    /\ LET info == GetTenantOdooInfo(loc[p].tenant)
       IN IF info = NoRow
          THEN SyncRaises(p, "TenantNotProvisioned")
          ELSE /\ loc' = [loc EXCEPT ![p].db_name = info.database]
               /\ pc' = [pc EXCEPT ![p] = "sync_lookup"]
               /\ UNCHANGED raised
    /\ UNCHANGED <<stores, now, creates, returned, opsLeft, faultsLeft, callers, pool, maxLen, trip, gw, posts, hooks>>

\* get_entity_mapping_by_ngsi_id (line 144)
SyncLookup(p) ==
    /\ pc[p] = "sync_lookup"
    /\ loc' = [loc EXCEPT ![p].existing =
                  GetEntityMappingByNgsiId(mappings, loc[p].tenant, loc[p].entity.id)]
    /\ pc' = [pc EXCEPT ![p] = "sync_erp"]
    /\ UNCHANGED <<stores, now, history, opsLeft, faultsLeft>>

\* update_record on the mapped id (lines 149-158)
SyncUpdate(p) ==
    /\ pc[p] = "sync_erp"
    /\ loc[p].existing # <<>>
    /\ CanAuthenticate(loc[p].db_name)
    /\ RecordExists(loc[p].db_name, loc[p].odoo_model, loc[p].existing[1].odoo_id)
    /\ odoo' = [odoo EXCEPT ![loc[p].db_name] =
                   OdooUpdateRecord(@, loc[p].odoo_model, loc[p].existing[1].odoo_id,
                                    TransformToOdoo(loc[p].entity))]
    /\ loc' = [loc EXCEPT ![p].odoo_id = loc[p].existing[1].odoo_id]
    /\ pc' = [pc EXCEPT ![p] = "sync_map"]
    /\ hooks' = TriggerNekazariWebhook("write", loc[p].odoo_model, loc[p].existing[1].odoo_id,
                                       loc[p].db_name, loc[p].entity.id)
    /\ UNCHANGED <<tenantInfo, mappings, syncStatus, subscriptions, now, creates, returned,
                   raised, opsLeft, faultsLeft, callers, pool, maxLen, trip, gw, posts>>

\* create_record (lines 160-167)
SyncCreate(p) ==
    /\ pc[p] = "sync_erp"
    /\ loc[p].existing = <<>>
    /\ CanAuthenticate(loc[p].db_name)
    /\ odoo' = [odoo EXCEPT ![loc[p].db_name] =
                   OdooCreateRecord(@, loc[p].odoo_model, TransformToOdoo(loc[p].entity))]
    /\ loc' = [loc EXCEPT ![p].odoo_id = odoo[loc[p].db_name].next_id[loc[p].odoo_model]]
    /\ pc' = [pc EXCEPT ![p] = "sync_map"]
    /\ creates' = [creates EXCEPT ![Key(p)] = @ + 1]
    /\ hooks' = TriggerNekazariWebhook("create", loc[p].odoo_model,
                                       odoo[loc[p].db_name].next_id[loc[p].odoo_model],
                                       loc[p].db_name, loc[p].entity.id)
    /\ UNCHANGED <<tenantInfo, mappings, syncStatus, subscriptions, now, returned, raised,
                   opsLeft, faultsLeft, callers, pool, maxLen, trip, gw, posts>>

\* an ERP failure that is swallowed: the call goes on to write the mapping
SyncErpFailsSilently(p) ==
    /\ pc[p] = "sync_erp"
    /\ \/ ~CanAuthenticate(loc[p].db_name) /\ UNCHANGED faultsLeft
       \/ /\ CanAuthenticate(loc[p].db_name)
          /\ loc[p].existing # <<>>
          /\ ~RecordExists(loc[p].db_name, loc[p].odoo_model, loc[p].existing[1].odoo_id)
          /\ UNCHANGED faultsLeft
       \/ CanFault /\ faultsLeft' = faultsLeft - 1
    /\ pc' = [pc EXCEPT ![p] = "sync_map"]
    /\ UNCHANGED <<loc, stores, now, history, opsLeft>>

\* the ERP call fails: the database is unnamed or missing, the record is missing, or
\* the call is rejected or does not get through
SyncErpFails(p) ==
    /\ pc[p] = "sync_erp"
    /\ \/ ~CanAuthenticate(loc[p].db_name) /\ UNCHANGED faultsLeft
       \/ /\ CanAuthenticate(loc[p].db_name)
          /\ loc[p].existing # <<>>
          /\ ~RecordExists(loc[p].db_name, loc[p].odoo_model, loc[p].existing[1].odoo_id)
          /\ UNCHANGED faultsLeft
       \/ CanFault /\ faultsLeft' = faultsLeft - 1
    /\ SyncRaises(p, "RemoteCallFailure")
    /\ UNCHANGED <<stores, now, creates, returned, opsLeft, callers, pool, maxLen, trip, gw, posts, hooks>>

\* the mapping row written at lines 170-177
MappingOf(p) ==
    [ngsi_id |-> loc[p].entity.id, ngsi_type |-> loc[p].entity.type,
     odoo_id |-> loc[p].odoo_id, odoo_model |-> loc[p].odoo_model,
     odoo_name |-> TransformToOdoo(loc[p].entity).name, last_sync |-> now]

\* create_entity_mapping (lines 169-177) and the return (lines 179-183)
SyncWriteMapping(p) ==
    /\ pc[p] = "sync_map"
    /\ mappings' = CreateEntityMapping(mappings, loc[p].tenant, MappingOf(p))
    /\ now' = now + 1
    /\ loc' = [loc EXCEPT ![p] = Returned([loc[p] EXCEPT !.synced = @ + 1, !.i = @ + 1,
                                                          !.ok = @ \cup {loc[p].entity.id}])]
    /\ pc' = [pc EXCEPT ![p] = loc[p].caller]
    /\ returned' = [returned EXCEPT ![Key(p)] = Append(@, loc[p].odoo_id)]
    /\ UNCHANGED <<tenantInfo, syncStatus, odoo, subscriptions, creates, raised,
                   opsLeft, faultsLeft, callers, pool, maxLen, trip, gw, posts, hooks>>

\* the write to the platform database fails
SyncWriteMappingFails(p) ==
    /\ pc[p] = "sync_map"
    /\ CanFault
    /\ faultsLeft' = faultsLeft - 1
    /\ SyncRaises(p, "DatabaseFailure")
    /\ UNCHANGED <<stores, now, creates, returned, opsLeft, callers, pool, maxLen, trip, gw, posts, hooks>>

\* ------------------------------------------------------------- handle_ngsi_notification
\* a request is taken by the first free handler
CanStart(p) ==
    /\ pc[p] = "idle"
    /\ opsLeft > 0
    /\ \A q \in Procs : q < p => pc[q] # "idle"

\* a handler without the check of line 74: the loop runs whatever was parsed
NotificationStartUnchecked(p) ==
    /\ CanStart(p)
    /\ \E sub \in SubscriptionIds, len \in 0..maxLen :
         /\ loc' = [loc EXCEPT ![p] = [IdleLoc EXCEPT
                                          !.op = "notify",
                                          !.subscription_id = sub,
                                          !.tenant = ExtractTenantFromSubscription(sub),
                                          !.n = len,
                                          !.i = 1]]
         /\ pc' = [pc EXCEPT ![p] = "notify_loop"]
    /\ opsLeft' = opsLeft - 1
    /\ UNCHANGED <<stores, now, history, faultsLeft>>

\* the request arrives with len(notification.data) entities, read one by one below;
\* the tenant is parsed from the subscription id (lines 68-80)
NotificationStart(p) ==
    /\ CanStart(p)
    /\ \E sub \in SubscriptionIds, len \in 0..maxLen :
         LET tenant_id == ExtractTenantFromSubscription(sub)
         IN IF tenant_id = NoValue
            THEN /\ loc' = [loc EXCEPT ![p] = [IdleLoc EXCEPT !.op = "notify",
                                                              !.subscription_id = sub,
                                                              !.n = len,
                                                              !.result = "ignored"]]
                 /\ pc' = [pc EXCEPT ![p] = "done"]
            ELSE /\ loc' = [loc EXCEPT ![p] = [IdleLoc EXCEPT !.op = "notify",
                                                              !.subscription_id = sub,
                                                              !.tenant = tenant_id,
                                                              !.n = len,
                                                              !.i = 1]]
                 /\ pc' = [pc EXCEPT ![p] = "notify_loop"]
    /\ opsLeft' = opsLeft - 1
    /\ UNCHANGED <<stores, now, history, faultsLeft>>

\* for entity in notification.data (lines 82-95)
NotificationNext(p) ==
    /\ pc[p] = "notify_loop"
    /\ loc[p].i <= loc[p].n
    /\ \E entity \in pool : SyncClassify(p, entity, "notify_loop")
    /\ UNCHANGED <<stores, now, creates, returned, opsLeft, faultsLeft, callers, pool, maxLen, trip, gw, posts, hooks>>

\* the response (lines 97-104)
NotificationDone(p) ==
    /\ pc[p] = "notify_loop"
    /\ loc[p].i > loc[p].n
    /\ loc' = [loc EXCEPT ![p].result = "processed"]
    /\ pc' = [pc EXCEPT ![p] = "done"]
    /\ UNCHANGED <<stores, now, history, opsLeft, faultsLeft>>

\* the response has been sent: the handler's frame is gone
Finish(p) ==
    /\ pc[p] = "done"
    /\ pc' = [pc EXCEPT ![p] = "idle"]
    /\ loc' = [loc EXCEPT ![p] = IdleLoc]
    /\ UNCHANGED <<stores, now, history, opsLeft, faultsLeft>>

\* ------------------------------------------------------------- create_entity_from_ngsi
\* POST /sync/entity/create-from-ngsi (sync.py lines 172-186)
CreateFromNgsiStart(p) ==
    /\ CanStart(p)
    /\ \E t \in callers :
         loc' = [loc EXCEPT ![p] = [IdleLoc EXCEPT !.op = "create_from_ngsi", !.tenant = t]]
    /\ pc' = [pc EXCEPT ![p] = "cfn_fetch"]
    /\ opsLeft' = opsLeft - 1
    /\ UNCHANGED <<stores, now, history, faultsLeft>>

\* fetch_entity (lines 190-193), then sync_entity_to_odoo up to its first await (line 196)
CreateFromNgsiFetch(p) ==
    /\ pc[p] = "cfn_fetch"
    /\ \/ /\ \E entity \in pool : SyncClassify(p, entity, "cfn_save")
          /\ UNCHANGED faultsLeft
       \* 404 from the broker: fetch_entity returns None (lines 82-83, 192-193)
       \/ /\ loc' = [loc EXCEPT ![p].result = "NotFound"]
          /\ pc' = [pc EXCEPT ![p] = "done"]
          /\ UNCHANGED <<raised, faultsLeft>>
       \* another status, or the request does not get through (lines 84-86)
       \/ /\ CanFault
          /\ faultsLeft' = faultsLeft - 1
          /\ loc' = [loc EXCEPT ![p].result = "error"]
          /\ pc' = [pc EXCEPT ![p] = "done"]
          /\ UNCHANGED raised
    /\ UNCHANGED <<stores, now, creates, returned, opsLeft, callers, pool, maxLen, trip, gw, posts, hooks>>

\* sync_entity_to_odoo returned {"id", "model", "name"}: the mapping is saved once
\* more and the entity is answered (lines 198-214); the row exists by now, so
\* request.ngsiLdType, which ON CONFLICT does not update, is not stored
CreateFromNgsiSave(p) ==
    /\ pc[p] = "cfn_save"
    /\ loc[p].failed = 0
    /\ LET odoo_ids == returned[Key(p)]
       IN mappings' = CreateEntityMapping(mappings, loc[p].tenant,
                         [ngsi_id |-> loc[p].entity.id, ngsi_type |-> loc[p].entity.type,
                          odoo_id |-> odoo_ids[Len(odoo_ids)],
                          odoo_model |-> Classify(loc[p].entity.type),
                          odoo_name |-> TransformToOdoo(loc[p].entity).name,
                          last_sync |-> now])
    /\ now' = now + 1
    /\ loc' = [loc EXCEPT ![p].result = "ok"]
    /\ pc' = [pc EXCEPT ![p] = "done"]
    /\ UNCHANGED <<tenantInfo, syncStatus, odoo, subscriptions, history, opsLeft, faultsLeft>>

\* sync_entity_to_odoo raised: except Exception answers 500 (lines 218-220)
CreateFromNgsiError(p) ==
    /\ pc[p] = "cfn_save"
    /\ loc[p].failed > 0
    /\ loc' = [loc EXCEPT ![p].result = "error"]
    /\ pc' = [pc EXCEPT ![p] = "done"]
    /\ UNCHANGED <<stores, now, history, opsLeft, faultsLeft>>

\* ------------------------------------------------------------- full_sync / trigger_sync
\* the sizes of the page GET /entities?type=... can answer with: entities of that type
\* the broker holds, ids distinct
PageSizes(entity_type) ==
    {len \in 0..maxLen : len <= Cardinality({e.id : e \in {x \in pool : x.type = entity_type}})}

\* POST /sync/trigger (sync.py lines 74-78): full_sync starts with synced = 0, errors = []
TriggerSyncStart(p) ==
    /\ CanStart(p)
    /\ \E t \in callers :
         loc' = [loc EXCEPT ![p] = [IdleLoc EXCEPT !.op = "full_sync", !.tenant = t,
                                                   !.ti = 1]]
    /\ pc' = [pc EXCEPT ![p] = "fs_fetch"]
    /\ opsLeft' = opsLeft - 1
    /\ UNCHANGED <<stores, now, history, faultsLeft>>

\* fetch_entities_by_type for the next type of the routing table (lines 215-218)
FullSyncFetch(p) ==
    /\ pc[p] = "fs_fetch"
    /\ loc[p].ti <= Len(RoutingTypes)
    /\ \/ \E len \in PageSizes(RoutingTypes[loc[p].ti]) :
            /\ loc' = [loc EXCEPT ![p].n = len, ![p].i = 1, ![p].seen = {},
                                  ![p].fetched = @ + len]
            /\ pc' = [pc EXCEPT ![p] = "fs_loop"]
            /\ UNCHANGED faultsLeft
       \* a status other than 200: logged, [] is returned (lines 113-115)
       \/ /\ CanFault
          /\ faultsLeft' = faultsLeft - 1
          /\ loc' = [loc EXCEPT ![p].n = 0, ![p].i = 1, ![p].seen = {},
                                ![p].fetch_rejected = @ + 1]
          /\ pc' = [pc EXCEPT ![p] = "fs_loop"]
       \* the request raises: caught at lines 229-232
       \/ /\ CanFault
          /\ faultsLeft' = faultsLeft - 1
          /\ loc' = [loc EXCEPT ![p].errors = Append(@, [what |-> RoutingTypes[loc[p].ti],
                                                         err |-> "FetchFailed"]),
                                ![p].fetch_errors = @ + 1,
                                ![p].ti = @ + 1]
          /\ pc' = [pc EXCEPT ![p] = "fs_fetch"]
    /\ UNCHANGED <<stores, now, history, opsLeft>>

\* for entity in entities (lines 220-227)
FullSyncNext(p) ==
    /\ pc[p] = "fs_loop"
    /\ loc[p].i <= loc[p].n
    /\ \E entity \in pool :
         /\ entity.type = RoutingTypes[loc[p].ti]
         /\ entity.id \notin loc[p].seen
         /\ SyncClassify(p, entity, "fs_loop")
    /\ UNCHANGED <<stores, now, creates, returned, opsLeft, faultsLeft, callers, pool, maxLen, trip, gw, posts, hooks>>

\* the page is exhausted: on to the next type
FullSyncTypeDone(p) ==
    /\ pc[p] = "fs_loop"
    /\ loc[p].i > loc[p].n
    /\ loc' = [loc EXCEPT ![p].ti = @ + 1]
    /\ pc' = [pc EXCEPT ![p] = "fs_fetch"]
    /\ UNCHANGED <<stores, now, history, opsLeft, faultsLeft>>

\* full_sync returns {"synced", "errors"} (line 236)
FullSyncReturn(p) ==
    /\ pc[p] = "fs_fetch"
    /\ loc[p].ti > Len(RoutingTypes)
    /\ pc' = [pc EXCEPT ![p] = IF loc[p].op = "n8n" THEN "n8n_return" ELSE "ts_status"]
    /\ UNCHANGED <<loc, stores, now, history, opsLeft, faultsLeft>>

\* a row that adds the run to what the row held
UpdateSyncStatusAccumulates(row, status) ==
    [status |-> status.status, last_sync |-> status.last_sync,
     entities_synced |-> row.entities_synced + status.entities_synced,
     errors |-> row.errors \o status.errors]

\* update_sync_status: INSERT ... ON CONFLICT (tenant_id) DO UPDATE SET col = EXCLUDED.col
UpdateSyncStatus(row, status) ==
    [status |-> status.status, last_sync |-> status.last_sync,
     entities_synced |-> status.entities_synced, errors |-> status.errors]

\* update_sync_status and the response (sync.py lines 80-92)
TriggerSyncStatus(p) ==
    /\ pc[p] = "ts_status"
    /\ syncStatus' = [syncStatus EXCEPT ![loc[p].tenant] =
                         UpdateSyncStatus(@, [status |-> "synced", last_sync |-> now,
                                              entities_synced |-> loc[p].synced,
                                              errors |-> loc[p].errors])]
    /\ now' = now + 1
    /\ loc' = [loc EXCEPT ![p].result = "synced"]
    /\ pc' = [pc EXCEPT ![p] = "done"]
    /\ UNCHANGED <<tenantInfo, mappings, odoo, subscriptions, history, opsLeft, faultsLeft>>

\* a cancellation that also takes back the mappings the run has written
FullSyncAbortRollsBack(p) ==
    /\ loc[p].op = "full_sync"
    /\ pc[p] \notin {"idle", "done"}
    /\ mappings' = SelectSeq(mappings, LAMBDA row : row.ngsi_id \notin loc[p].ok)
    /\ loc' = [loc EXCEPT ![p].result = "aborted"]
    /\ pc' = [pc EXCEPT ![p] = "done"]
    /\ UNCHANGED <<tenantInfo, syncStatus, odoo, subscriptions, now, history, opsLeft,
                   faultsLeft>>

\* the caller's timeout or cancellation reaches the run at one of its awaits:
\* CancelledError is not an Exception, so neither except clause of full_sync (lines 224,
\* 229) nor the one of trigger_sync (sync.py line 94) takes it; the run ends there and
\* update_sync_status is not reached
FullSyncAbort(p) ==
    /\ loc[p].op = "full_sync"
    /\ pc[p] \notin {"idle", "done"}
    /\ loc' = [loc EXCEPT ![p].result = "aborted"]
    /\ pc' = [pc EXCEPT ![p] = "done"]
    /\ UNCHANGED <<stores, now, history, opsLeft, faultsLeft>>

\* ------------------------------------------------------------- save_tenant_odoo_info
Info(status) ==
    [status |-> status, name |-> NoValue, database |-> NoValue,
     energy_modules_enabled |-> FALSE, installed_modules |-> <<>>,
     admin_email |-> NoValue, created_at |-> NoValue, error |-> NoValue]

Coalesce(excluded, old) == IF excluded # NoValue THEN excluded ELSE old

\* INSERT ... ON CONFLICT (tenant_id) DO UPDATE SET col = COALESCE(EXCLUDED.col, col):
\* energy_modules_enabled and installed_modules are never NULL in the inserted row
\* (info.get(..., False), json.dumps(info.get(..., []))), created_at is not updated;
\* the column error is in neither column list, so info["error"] is never stored
SaveTenantOdooInfo(row, info) ==
    IF row = NoRow
    THEN [info EXCEPT !.error = NoValue]
    ELSE [status |-> Coalesce(info.status, row.status),
          name |-> Coalesce(info.name, row.name),
          database |-> Coalesce(info.database, row.database),
          energy_modules_enabled |-> info.energy_modules_enabled,
          installed_modules |-> info.installed_modules,
          admin_email |-> Coalesce(info.admin_email, row.admin_email),
          created_at |-> row.created_at,
          error |-> row.error]

\* ------------------------------------------------------------- provision_tenant
BaseModules == <<"base", "sale", "purchase", "stock", "account">>
EnergyModules == <<"energy_community", "energy_selfconsumption", "energy_import_statement">>

\* modules_to_install (tenant.py lines 118-127), no additionalModules
ModulesToInstall(enableEnergyModules) ==
    IF enableEnergyModules THEN BaseModules \o EnergyModules ELSE BaseModules

\* user.get("email", f"admin@{tenant_id}.nkz")
AdminEmail(tenant_id) == "admin@" \o tenant_id \o ".nkz"

Range(s) == {s[k] : k \in 1..Len(s)}

\* ------------------------------------------------------------- install_modules
\* the modules the ERP's ir.module.module lists
Registry == Range(BaseModules) \cup Range(EnergyModules)

\* the module lists install_modules is called with: modules_to_install without and
\* with the energy modules, and with an additionalModules entry the ERP does not list
ModuleLists ==
    {ModulesToInstall(FALSE), ModulesToInstall(TRUE),
     ModulesToInstall(FALSE) \o <<"unlisted_module">>}

\* a search without the state condition: [["name", "in", modules]]
ModulesToRequestAll(db, modules) == {m \in Registry : m \in Range(modules)}

\* search [["name", "in", modules], ["state", "!=", "installed"]] (lines 171-175)
ModulesToRequest(db, modules) ==
    {m \in Registry : m \in Range(modules) /\ m \notin db.modules}

\* install_modules is called: client = OdooClient(database=db_name) (line 167)
InstallCall(p) ==
    /\ gw.client[p].at = "none"
    /\ opsLeft > 0
    /\ \E modules \in ModuleLists, t \in callers :
         gw' = [gw EXCEPT !.client[p] =
                   [NoClient EXCEPT !.at = "new", !.call = MaxInstallCalls - opsLeft + 1,
                                    !.op = "install", !.db = TenantDbName(t),
                                    !.modules = modules]]
    /\ opsLeft' = opsLeft - 1
    /\ UNCHANGED <<stores, now, pc, loc, creates, returned, raised, faultsLeft,
                   callers, pool, maxLen, trip, posts, hooks>>

\* module_ids = client.execute("ir.module.module", "search", ...) (lines 171-175)
InstallSearch(p) ==
    /\ gw.client[p].at = "authenticated"
    /\ gw.client[p].op = "install"
    /\ LET c == gw.client[p]
       IN IF odoo[c.db].exists /\ c.db \in gw.accepts
          THEN gw' = [gw EXCEPT !.client[p] =
                         [c EXCEPT !.at = "searched",
                                   !.module_ids = ModulesToRequest(odoo[c.db], c.modules)]]
          ELSE gw' = [gw EXCEPT !.client[p] = [c EXCEPT !.at = "failed"]]
    /\ UNCHANGED <<stores, now, pc, loc, creates, returned, raised, opsLeft, faultsLeft,
                   callers, pool, maxLen, trip, posts, hooks>>

\* if module_ids: button_immediate_install(module_ids) (lines 177-186)
InstallButton(p) ==
    /\ gw.client[p].at = "searched"
    /\ LET c == gw.client[p]
       IN IF c.module_ids = {}
          THEN /\ gw' = [gw EXCEPT !.client[p] = [c EXCEPT !.at = "returned"],
                                   !.completed = @ \cup {c.modules}]
               /\ UNCHANGED odoo
          ELSE IF odoo[c.db].exists /\ c.db \in gw.accepts
          THEN /\ gw' = [gw EXCEPT !.client[p] = [c EXCEPT !.at = "returned", !.sent = @ + 1],
                                   !.log = Append(@, [call |-> c.call, db |-> c.db,
                                                      op |-> "button_immediate_install",
                                                      ids |-> c.module_ids]),
                                   !.completed = @ \cup {c.modules}]
               /\ odoo' = [odoo EXCEPT ![c.db].modules = @ \cup c.module_ids]
          ELSE /\ gw' = [gw EXCEPT !.client[p] = [c EXCEPT !.at = "failed", !.sent = @ + 1]]
               /\ UNCHANGED odoo
    /\ UNCHANGED <<tenantInfo, mappings, syncStatus, subscriptions, now, pc, loc,
                   creates, returned, raised, opsLeft, faultsLeft, callers, pool, maxLen, trip, posts, hooks>>

\* the check against a status the service never writes
AlreadyProvisionedOtherStatus(existing) ==
    existing # NoRow /\ existing.status = "provisioned"

\* the check at tenant.py lines 96-98
AlreadyProvisioned(existing) == existing # NoRow /\ existing.status = "active"

\* POST /tenant/provision
ProvisionStart(p) ==
    /\ CanStart(p)
    /\ \E t \in callers, enableEnergyModules \in BOOLEAN :
         loc' = [loc EXCEPT ![p] = [IdleLoc EXCEPT !.op = "provision", !.tenant = t,
                                                   !.energy = enableEnergyModules,
                                                   !.db_name = TenantDbName(t)]]
    /\ pc' = [pc EXCEPT ![p] = "prov_check"]
    /\ opsLeft' = opsLeft - 1
    /\ UNCHANGED <<stores, now, history, faultsLeft>>

\* get_tenant_odoo_info and the 409 (lines 95-98)
ProvisionCheck(p) ==
    /\ pc[p] = "prov_check"
    /\ IF AlreadyProvisioned(GetTenantOdooInfo(loc[p].tenant))
       THEN /\ loc' = [loc EXCEPT ![p].result = "Conflict"]
            /\ pc' = [pc EXCEPT ![p] = "done"]
       ELSE /\ pc' = [pc EXCEPT ![p] = "prov_mark"]
            /\ UNCHANGED loc
    /\ UNCHANGED <<stores, now, history, opsLeft, faultsLeft>>

\* mark as provisioning (lines 101-105)
ProvisionMark(p) ==
    /\ pc[p] = "prov_mark"
    /\ tenantInfo' = [tenantInfo EXCEPT ![loc[p].tenant] =
                         SaveTenantOdooInfo(@, Info("provisioning"))]
    /\ pc' = [pc EXCEPT ![p] = "prov_dup"]
    /\ UNCHANGED <<loc, mappings, syncStatus, odoo, subscriptions, now, history,
                   opsLeft, faultsLeft>>

\* an external step raised: the except clause takes over (line 168)
ProvisionRaises(p, msg) ==
    /\ loc' = [loc EXCEPT ![p].error = msg]
    /\ pc' = [pc EXCEPT ![p] = "prov_error"]

\* duplicate_database(template, db_name) (lines 111-115): the ERP refuses a target
\* name that is taken
ProvisionDuplicate(p) ==
    /\ pc[p] = "prov_dup"
    /\ \/ /\ odoo[ODOO_TEMPLATE_DB].exists
          /\ ~odoo[loc[p].db_name].exists
          /\ odoo' = [odoo EXCEPT ![loc[p].db_name] = odoo[ODOO_TEMPLATE_DB]]
          /\ loc' = [loc EXCEPT ![p].steps = Append(@, "duplicate")]
          /\ pc' = [pc EXCEPT ![p] = "prov_install"]
          /\ UNCHANGED faultsLeft
       \/ /\ odoo[loc[p].db_name].exists
          /\ ProvisionRaises(p, "duplicate failed")
          /\ UNCHANGED <<odoo, faultsLeft>>
       \/ /\ CanFault
          /\ faultsLeft' = faultsLeft - 1
          /\ ProvisionRaises(p, "duplicate failed")
          /\ UNCHANGED odoo
    /\ UNCHANGED <<tenantInfo, mappings, syncStatus, subscriptions, now, history, opsLeft>>

\* install_modules(db_name, modules_to_install) (lines 117-129)
ProvisionInstall(p) ==
    /\ pc[p] = "prov_install"
    /\ \/ /\ CanAuthenticate(loc[p].db_name)
          /\ odoo' = [odoo EXCEPT ![loc[p].db_name].modules =
                         @ \cup ModulesToRequest(odoo[loc[p].db_name],
                                                 ModulesToInstall(loc[p].energy))]
          /\ loc' = [loc EXCEPT ![p].steps = Append(@, "install")]
          /\ pc' = [pc EXCEPT ![p] = "prov_user"]
          /\ UNCHANGED faultsLeft
       \/ /\ ~CanAuthenticate(loc[p].db_name)
          /\ ProvisionRaises(p, "install failed")
          /\ UNCHANGED <<odoo, faultsLeft>>
       \/ /\ CanFault
          /\ faultsLeft' = faultsLeft - 1
          /\ ProvisionRaises(p, "install failed")
          /\ UNCHANGED odoo
    /\ UNCHANGED <<tenantInfo, mappings, syncStatus, subscriptions, now, history, opsLeft>>

\* create_user(db_name, admin_email, ..., is_admin=True) (lines 131-138): res.users
\* logins are unique
ProvisionCreateUser(p) ==
    /\ pc[p] = "prov_user"
    /\ LET email == AdminEmail(loc[p].tenant)
           ok == CanAuthenticate(loc[p].db_name) /\ email \notin odoo[loc[p].db_name].users
       IN \/ /\ ok
             /\ odoo' = [odoo EXCEPT ![loc[p].db_name].users = @ \cup {email}]
             /\ loc' = [loc EXCEPT ![p].steps = Append(@, "create_user")]
             /\ pc' = [pc EXCEPT ![p] = "prov_save"]
             /\ UNCHANGED faultsLeft
          \/ /\ ~ok
             /\ ProvisionRaises(p, "create user failed")
             /\ UNCHANGED <<odoo, faultsLeft>>
          \/ /\ CanFault
             /\ faultsLeft' = faultsLeft - 1
             /\ ProvisionRaises(p, "create user failed")
             /\ UNCHANGED odoo
    /\ UNCHANGED <<tenantInfo, mappings, syncStatus, subscriptions, now, history, opsLeft>>

\* the row saved at lines 141-149
ActiveInfo(tenant_id, enableEnergyModules) ==
    [status |-> "active", name |-> tenant_id, database |-> TenantDbName(tenant_id),
     energy_modules_enabled |-> enableEnergyModules,
     installed_modules |-> ModulesToInstall(enableEnergyModules),
     admin_email |-> AdminEmail(tenant_id), created_at |-> "utcnow", error |-> NoValue]

\* save tenant info (lines 140-149)
ProvisionSave(p) ==
    /\ pc[p] = "prov_save"
    /\ tenantInfo' = [tenantInfo EXCEPT ![loc[p].tenant] =
                         SaveTenantOdooInfo(@, ActiveInfo(loc[p].tenant, loc[p].energy))]
    /\ loc' = [loc EXCEPT ![p].ti = 1]
    /\ pc' = [pc EXCEPT ![p] = "prov_subs"]
    /\ UNCHANGED <<mappings, syncStatus, odoo, subscriptions, now, history,
                   opsLeft, faultsLeft>>

\* the broker's answer to POST /ngsi-ld/v1/subscriptions: 409 when a subscription with
\* the identifier is registered for the tenant, 201 after adding it otherwise
BrokerPost(subs, tenant_id, entity_type) ==
    IF <<tenant_id, entity_type>> \in subs
    THEN [status |-> 409, subs |-> subs]
    ELSE [status |-> 201, subs |-> subs \cup {<<tenant_id, entity_type>>}]

\* the answer is added to the history while there is room for it
Posted(tenant_id, entity_type, status) ==
    IF Len(posts.answers) < posts.keep
    THEN [posts EXCEPT !.answers = Append(@, [tenant |-> tenant_id, type |-> entity_type,
                                              status |-> status])]
    ELSE posts

\* a registration that takes only 201 for success: 409 is raised as an error
ProvisionSubscribeStrict(p) ==
    /\ pc[p] = "prov_subs"
    /\ loc[p].ti <= Len(RoutingTypes)
    /\ LET answer == BrokerPost(subscriptions, loc[p].tenant, RoutingTypes[loc[p].ti])
       IN /\ subscriptions' = answer.subs
          /\ posts' = Posted(loc[p].tenant, RoutingTypes[loc[p].ti], answer.status)
          /\ IF answer.status = 201
             THEN /\ loc' = [loc EXCEPT ![p].ti = @ + 1]
                  /\ UNCHANGED pc
             ELSE ProvisionRaises(p, "subscription failed")
    /\ UNCHANGED <<tenantInfo, mappings, syncStatus, odoo, now, creates, returned, raised,
                   opsLeft, faultsLeft, callers, pool, maxLen, trip, gw, hooks>>

\* register_tenant_subscriptions: one POST per type of the routing table
ProvisionSubscribe(p) ==
    /\ pc[p] = "prov_subs"
    /\ loc[p].ti <= Len(RoutingTypes)
    /\ \/ \* 201 Created, or 409 already exists (line 374)
          LET answer == BrokerPost(subscriptions, loc[p].tenant, RoutingTypes[loc[p].ti])
          IN /\ subscriptions' = answer.subs
             /\ posts' = Posted(loc[p].tenant, RoutingTypes[loc[p].ti], answer.status)
             /\ loc' = [loc EXCEPT ![p].ti = @ + 1]
             /\ UNCHANGED <<pc, faultsLeft>>
       \/ \* another status: a warning is logged (line 377)
          /\ CanFault
          /\ faultsLeft' = faultsLeft - 1
          /\ posts' = Posted(loc[p].tenant, RoutingTypes[loc[p].ti], 500)
          /\ loc' = [loc EXCEPT ![p].ti = @ + 1]
          /\ UNCHANGED <<pc, subscriptions>>
       \/ \* the request raises (broker unreachable)
          /\ CanFault
          /\ faultsLeft' = faultsLeft - 1
          /\ ProvisionRaises(p, "subscription failed")
          /\ UNCHANGED <<subscriptions, posts>>
    /\ UNCHANGED <<tenantInfo, mappings, syncStatus, odoo, now, creates, returned, raised,
                   opsLeft, callers, pool, maxLen, trip, gw, hooks>>

\* the response (lines 155-166)
ProvisionDone(p) ==
    /\ pc[p] = "prov_subs"
    /\ loc[p].ti > Len(RoutingTypes)
    /\ loc' = [loc EXCEPT ![p].steps = Append(@, "subscriptions"), ![p].result = "active"]
    /\ pc' = [pc EXCEPT ![p] = "done"]
    /\ UNCHANGED <<stores, now, history, opsLeft, faultsLeft>>

\* an except clause that only answers 500
ProvisionErrorNoSave(p) ==
    /\ pc[p] = "prov_error"
    /\ loc' = [loc EXCEPT ![p].result = "error"]
    /\ pc' = [pc EXCEPT ![p] = "done"]
    /\ UNCHANGED <<stores, now, history, opsLeft, faultsLeft>>

\* except Exception: mark as error and answer 500 (lines 168-178); the table has no
\* statement writing its error column
ProvisionError(p) ==
    /\ pc[p] = "prov_error"
    /\ tenantInfo' = [tenantInfo EXCEPT ![loc[p].tenant] =
                         SaveTenantOdooInfo(@, [Info("error") EXCEPT !.error = loc[p].error])]
    /\ loc' = [loc EXCEPT ![p].result = "error"]
    /\ pc' = [pc EXCEPT ![p] = "done"]
    /\ UNCHANGED <<mappings, syncStatus, odoo, subscriptions, now, history,
                   opsLeft, faultsLeft>>

\* ------------------------------------------------------------- delete_tenant_odoo
\* DELETE /tenant/delete
DeleteStart(p) ==
    /\ CanStart(p)
    /\ \E t \in callers :
         loc' = [loc EXCEPT ![p] = [IdleLoc EXCEPT !.op = "delete", !.tenant = t]]
    /\ pc' = [pc EXCEPT ![p] = "del_check"]
    /\ opsLeft' = opsLeft - 1
    /\ UNCHANGED <<stores, now, history, faultsLeft>>

\* get_tenant_odoo_info and the 404 (lines 194-198)
DeleteCheck(p) ==
    /\ pc[p] = "del_check"
    /\ LET info == GetTenantOdooInfo(loc[p].tenant)
       IN IF info = NoRow
          THEN /\ loc' = [loc EXCEPT ![p].result = "NotFound"]
               /\ pc' = [pc EXCEPT ![p] = "done"]
          ELSE /\ loc' = [loc EXCEPT ![p].db_name = info.database]
               /\ pc' = [pc EXCEPT ![p] = "del_drop"]
    /\ UNCHANGED <<stores, now, history, opsLeft, faultsLeft>>

\* a decommission that logs a failed drop and goes on
DeleteDropSwallows(p) ==
    /\ pc[p] = "del_drop"
    /\ \/ /\ loc[p].db_name \in DbNames
          /\ odoo' = [odoo EXCEPT ![loc[p].db_name] = NoDb]
          /\ loc' = [loc EXCEPT ![p].steps = Append(@, "drop")]
          /\ UNCHANGED faultsLeft
       \/ /\ loc[p].db_name \notin DbNames
          /\ UNCHANGED <<loc, odoo, faultsLeft>>
       \/ /\ CanFault
          /\ faultsLeft' = faultsLeft - 1
          /\ UNCHANGED <<loc, odoo>>
    /\ pc' = [pc EXCEPT ![p] = "del_save"]
    /\ UNCHANGED <<tenantInfo, mappings, syncStatus, subscriptions, now, history, opsLeft>>

\* delete_database(db_name) (lines 200-202): db.drop answers False for a database that
\* does not exist; a None name cannot be sent
DeleteDrop(p) ==
    /\ pc[p] = "del_drop"
    /\ \/ /\ loc[p].db_name \in DbNames
          /\ odoo' = [odoo EXCEPT ![loc[p].db_name] = NoDb]
          /\ loc' = [loc EXCEPT ![p].steps = Append(@, "drop")]
          /\ pc' = [pc EXCEPT ![p] = "del_save"]
          /\ UNCHANGED faultsLeft
       \/ /\ loc[p].db_name \notin DbNames
          /\ loc' = [loc EXCEPT ![p].result = "error"]
          /\ pc' = [pc EXCEPT ![p] = "done"]
          /\ UNCHANGED <<odoo, faultsLeft>>
       \/ /\ CanFault
          /\ faultsLeft' = faultsLeft - 1
          /\ loc' = [loc EXCEPT ![p].result = "error"]
          /\ pc' = [pc EXCEPT ![p] = "done"]
          /\ UNCHANGED odoo
    /\ UNCHANGED <<tenantInfo, mappings, syncStatus, subscriptions, now, history, opsLeft>>

\* the row is left in place until the subscriptions are cancelled
DeleteRecordDeferred(p) ==
    /\ pc[p] = "del_save"
    /\ loc' = [loc EXCEPT ![p].ti = 1]
    /\ pc' = [pc EXCEPT ![p] = "del_subs"]
    /\ UNCHANGED <<stores, now, history, opsLeft, faultsLeft>>

\* a decommission that also deletes the tenant's rows of odoo_entity_mappings
DeleteRecordCascades(p) ==
    /\ pc[p] = "del_save"
    /\ tenantInfo' = [tenantInfo EXCEPT ![loc[p].tenant] = NoRow]
    /\ mappings' = SelectSeq(mappings, LAMBDA r : r.tenant_id # loc[p].tenant)
    /\ loc' = [loc EXCEPT ![p].steps = Append(@, "remove"), ![p].ti = 1]
    /\ pc' = [pc EXCEPT ![p] = "del_subs"]
    /\ UNCHANGED <<syncStatus, odoo, subscriptions, now, history, opsLeft, faultsLeft>>

\* save_tenant_odoo_info(tenant_id, None) (lines 204-205): DELETE FROM odoo_tenant_info
DeleteRecord(p) ==
    /\ pc[p] = "del_save"
    /\ tenantInfo' = [tenantInfo EXCEPT ![loc[p].tenant] = NoRow]
    /\ loc' = [loc EXCEPT ![p].steps = Append(@, "remove"), ![p].ti = 1]
    /\ pc' = [pc EXCEPT ![p] = "del_subs"]
    /\ UNCHANGED <<mappings, syncStatus, odoo, subscriptions, now, history,
                   opsLeft, faultsLeft>>

\* remove_tenant_subscriptions: one DELETE per type of the routing table
DeleteSubscription(p) ==
    /\ pc[p] = "del_subs"
    /\ loc[p].ti <= Len(RoutingTypes)
    /\ \/ \* 204, or 404
          /\ subscriptions' = subscriptions \ {<<loc[p].tenant, RoutingTypes[loc[p].ti]>>}
          /\ loc' = [loc EXCEPT ![p].ti = @ + 1]
          /\ UNCHANGED <<pc, faultsLeft>>
       \/ \* another status: nothing is logged, the loop goes on
          /\ CanFault
          /\ faultsLeft' = faultsLeft - 1
          /\ loc' = [loc EXCEPT ![p].ti = @ + 1]
          /\ UNCHANGED <<pc, subscriptions>>
       \/ \* the request raises: 500 (lines 217-219)
          /\ CanFault
          /\ faultsLeft' = faultsLeft - 1
          /\ loc' = [loc EXCEPT ![p].result = "error"]
          /\ pc' = [pc EXCEPT ![p] = "done"]
          /\ UNCHANGED subscriptions
    /\ UNCHANGED <<tenantInfo, mappings, syncStatus, odoo, now, history, opsLeft>>

\* the response (lines 211-213)
DeleteDone(p) ==
    /\ pc[p] = "del_subs"
    /\ loc[p].ti > Len(RoutingTypes)
    /\ loc' = [loc EXCEPT ![p].steps = Append(@, "unsubscribe"), ![p].result = "deleted"]
    /\ pc' = [pc EXCEPT ![p] = "done"]
    /\ UNCHANGED <<stores, now, history, opsLeft, faultsLeft>>

\* ------------------------------------------------------------- N8NIntegration.handle_event
\* the keys of the handlers dict (lines 63-69)
SupportedEvents ==
    {"odoo.invoice.create", "odoo.order.create", "odoo.energy.log", "odoo.product.update",
     "sync.request"}

\* event names a workflow can send: the supported ones, one of another operation and
\* one that differs in case
EventNames == SupportedEvents \cup {"odoo.invoice.delete", "Sync.Request"}

\* what the data of an event says: the target by id, by a key to search for, or not at
\* all; for sync.request a full run, one entity, or neither
EventArgs(event) ==
    IF event = "sync.request" THEN {"full", "entity", "none"}
    ELSE IF event = "odoo.energy.log" THEN {"installation", "meter", "none"}
    ELSE {"id", "search", "none"}

\* the model the handler of an event writes
WorkflowModel(event, arg) ==
    IF event = "odoo.invoice.create" THEN "account.move"
    ELSE IF event = "odoo.order.create" THEN "sale.order"
    ELSE IF event = "odoo.energy.log"
    THEN (IF arg = "installation" THEN "energy.reading" ELSE "energy.meter.reading")
    ELSE "product.template"

\* an exception that leaves handle_event
N8nHandlerRaisesUncaught(p, msg) ==
    /\ loc' = [loc EXCEPT ![p].error = msg, ![p].result = "raised"]
    /\ pc' = [pc EXCEPT ![p] = "done"]

\* the handler raised: except Exception returns {"status": "error", ...} (lines 81-83)
N8nHandlerRaises(p, msg) ==
    /\ loc' = [loc EXCEPT ![p].error = msg, ![p].result = "error"]
    /\ pc' = [pc EXCEPT ![p] = "done"]

\* POST /webhook/n8n (webhook.py lines 137-145)
N8nStart(p) ==
    /\ CanStart(p)
    /\ \E t \in callers, event \in EventNames :
         \E arg \in EventArgs(event) :
            loc' = [loc EXCEPT ![p] = [IdleLoc EXCEPT !.op = "n8n", !.tenant = t,
                                                      !.event = event, !.arg = arg]]
    /\ pc' = [pc EXCEPT ![p] = "n8n_dispatch"]
    /\ opsLeft' = opsLeft - 1
    /\ UNCHANGED <<stores, now, history, faultsLeft>>

\* handlers.get(event) (lines 71-74), and the first lines of _handle_sync_request
N8nDispatch(p) ==
    /\ pc[p] = "n8n_dispatch"
    /\ IF loc[p].event \notin SupportedEvents
       THEN /\ loc' = [loc EXCEPT ![p].result = "ignored"]
            /\ pc' = [pc EXCEPT ![p] = "done"]
       ELSE IF loc[p].event # "sync.request"
       THEN /\ pc' = [pc EXCEPT ![p] = "n8n_getdb"]
            /\ UNCHANGED loc
       ELSE IF loc[p].arg = "full"
       THEN /\ loc' = [loc EXCEPT ![p].ti = 1]
            /\ pc' = [pc EXCEPT ![p] = "fs_fetch"]
       ELSE IF loc[p].arg = "entity"
       THEN /\ pc' = [pc EXCEPT ![p] = "n8n_fetch"]
            /\ UNCHANGED loc
       ELSE /\ loc' = [loc EXCEPT ![p].result = "success"]
            /\ pc' = [pc EXCEPT ![p] = "done"]
    /\ UNCHANGED <<stores, now, history, opsLeft, faultsLeft>>

\* _get_odoo_database (lines 36-41)
N8nGetDatabase(p) ==
    /\ pc[p] = "n8n_getdb"
    /\ LET info == GetTenantOdooInfo(loc[p].tenant)
       IN IF info = NoRow
          THEN N8nHandlerRaises(p, "TenantNotProvisioned")
          ELSE /\ loc' = [loc EXCEPT ![p].db_name = info.database]
               /\ pc' = [pc EXCEPT ![p] = "n8n_find"]
    /\ UNCHANGED <<stores, now, history, opsLeft, faultsLeft>>

\* the target of the operation: given by id, searched in the ERP (search_records), or
\* missing (ValueError); the ERP holds partners this service did not create, while
\* products are searched by x_ngsi_id among the records it did
N8nFind(p) ==
    /\ pc[p] = "n8n_find"
    /\ \/ /\ loc[p].arg \in {"id", "installation", "meter"}
          /\ loc' = [loc EXCEPT ![p].odoo_id = 1]
          /\ pc' = [pc EXCEPT ![p] = "n8n_write"]
          /\ UNCHANGED faultsLeft
       \/ /\ loc[p].arg = "none"
          /\ N8nHandlerRaises(p, "ValueError")
          /\ UNCHANGED faultsLeft
       \/ /\ loc[p].arg = "search"
          /\ CanAuthenticate(loc[p].db_name)
          /\ \E found \in IF loc[p].event = "odoo.product.update"
                           THEN {r.id : r \in {x \in odoo[loc[p].db_name].records :
                                                  /\ x.model = "product.template"
                                                  /\ x.x_ngsi_id \in EntityIds}}
                                \cup {0}
                           ELSE {0, 1} :
               IF found = 0
               THEN /\ loc' = [loc EXCEPT ![p].error = "ValueError", ![p].result = "error",
                                          ![p].erp_calls = @ + 1]
                    /\ pc' = [pc EXCEPT ![p] = "done"]
               ELSE /\ loc' = [loc EXCEPT ![p].odoo_id = found, ![p].erp_calls = @ + 1]
                    /\ pc' = [pc EXCEPT ![p] = "n8n_write"]
          /\ UNCHANGED faultsLeft
       \/ /\ loc[p].arg = "search"
          /\ \/ ~CanAuthenticate(loc[p].db_name) /\ UNCHANGED faultsLeft
             \/ CanFault /\ faultsLeft' = faultsLeft - 1
          /\ N8nHandlerRaises(p, "RemoteCallFailure")
    /\ UNCHANGED <<stores, now, history, opsLeft>>

\* create_record of the invoice, order or reading (lines 144, 201, 243), update_record
\* of the product (lines 277-282); _handle_energy_log returns "skipped" when its
\* create_record raises (lines 247-249)
N8nWrite(p) ==
    /\ pc[p] = "n8n_write"
    /\ LET model == WorkflowModel(loc[p].event, loc[p].arg)
           db == odoo[loc[p].db_name]
           known == model \in {"energy.reading", "energy.meter.reading"} =>
                       Range(EnergyModules) \subseteq db.modules
       IN \/ /\ CanAuthenticate(loc[p].db_name)
             /\ known
             /\ loc[p].event # "odoo.product.update"
             /\ odoo' = [odoo EXCEPT ![loc[p].db_name] =
                            OdooCreateRecord(@, model, [name |-> loc[p].event,
                                                        x_ngsi_id |-> NoValue])]
             /\ loc' = [loc EXCEPT ![p].result = "success", ![p].erp_calls = @ + 1]
             /\ pc' = [pc EXCEPT ![p] = "done"]
             /\ UNCHANGED faultsLeft
          \/ /\ CanAuthenticate(loc[p].db_name)
             /\ loc[p].event = "odoo.product.update"
             /\ RecordExists(loc[p].db_name, model, loc[p].odoo_id)
             /\ odoo' = [odoo EXCEPT ![loc[p].db_name].records =
                            {IF r.model = model /\ r.id = loc[p].odoo_id
                             THEN [r EXCEPT !.name = "values"] ELSE r : r \in @}]
             /\ loc' = [loc EXCEPT ![p].result = "success", ![p].erp_calls = @ + 1]
             /\ pc' = [pc EXCEPT ![p] = "done"]
             /\ UNCHANGED faultsLeft
          \/ /\ \/ /\ \/ ~CanAuthenticate(loc[p].db_name)
                      \/ CanAuthenticate(loc[p].db_name) /\ ~known
                      \/ /\ CanAuthenticate(loc[p].db_name)
                         /\ loc[p].event = "odoo.product.update"
                         /\ ~RecordExists(loc[p].db_name, model, loc[p].odoo_id)
                   /\ UNCHANGED faultsLeft
                \/ CanFault /\ faultsLeft' = faultsLeft - 1
             /\ IF loc[p].event = "odoo.energy.log"
                THEN /\ loc' = [loc EXCEPT ![p].result = "success", ![p].erp_calls = @ + 1]
                     /\ pc' = [pc EXCEPT ![p] = "done"]
                ELSE N8nHandlerRaises(p, "RemoteCallFailure")
             /\ UNCHANGED odoo
    /\ UNCHANGED <<tenantInfo, mappings, syncStatus, subscriptions, now, history, opsLeft>>

\* _handle_sync_request with an entity_id: fetch_entity, then sync_entity_to_odoo
\* (lines 310-316)
N8nFetch(p) ==
    /\ pc[p] = "n8n_fetch"
    /\ \/ /\ \E entity \in pool : SyncClassify(p, entity, "n8n_return")
          /\ UNCHANGED faultsLeft
       \/ /\ loc' = [loc EXCEPT ![p].result = "success"]
          /\ pc' = [pc EXCEPT ![p] = "done"]
          /\ UNCHANGED <<raised, faultsLeft>>
       \/ /\ CanFault
          /\ faultsLeft' = faultsLeft - 1
          /\ N8nHandlerRaises(p, "FetchFailed")
          /\ UNCHANGED raised
    /\ UNCHANGED <<stores, now, creates, returned, opsLeft, callers, pool, maxLen, trip, gw,
                   posts, hooks>>

\* _handle_sync_request returns what full_sync returned (line 308), or what
\* sync_entity_to_odoo returned (line 314); an exception of sync_entity_to_odoo goes to
\* the except clause of handle_event
N8nReturn(p) ==
    /\ pc[p] = "n8n_return"
    /\ IF loc[p].arg = "entity" /\ loc[p].failed > 0
       THEN N8nHandlerRaises(p, loc[p].errors[Len(loc[p].errors)].err)
       ELSE /\ loc' = [loc EXCEPT ![p].result = "success"]
            /\ pc' = [pc EXCEPT ![p] = "done"]
    /\ UNCHANGED <<stores, now, history, opsLeft, faultsLeft>>

N8nStep(p) ==
    \/ N8nStart(p)
    \/ N8nDispatch(p)
    \/ N8nGetDatabase(p)
    \/ N8nFind(p)
    \/ N8nWrite(p)
    \/ N8nFetch(p)
    \/ N8nReturn(p)

\* ------------------------------------------------------------- _transform_to_odoo, in full
\* JSON and Python values: None, a string, a number, a boolean, a dict
Null == [t |-> "null"]
Str(s) == [t |-> "str", s |-> s]
Num(n) == [t |-> "int", n |-> n]
Bool(b) == [t |-> "bool", b |-> b]
Obj(f) == [t |-> "obj", f |-> f]

\* the truth value Python gives a value in "x or y"
Truthy(v) ==
    \/ v.t = "str" /\ v.s # ""
    \/ v.t = "int" /\ v.n # 0
    \/ v.t = "bool" /\ v.b
    \/ v.t = "obj" /\ DOMAIN v.f # {}

\* str(x)
PyStr(v) ==
    IF v.t = "null" THEN Str("None")
    ELSE IF v.t = "str" THEN v
    ELSE Str("repr")

\* dict.get(key)
DictGet(f, key) == IF key \in DOMAIN f THEN f[key] ELSE Null

\* an NGSI-LD Property {"type": "Property", "value": v}, and a JSON-LD value object
Wrapped(v) == Obj([type |-> Str("Property"), value |-> v])
AtWrapped(v) == Obj("@value" :> v)

\* the attributes each _transform_* reads (lines 272-318)
AttrNames(entity_type) ==
    IF entity_type = "AgriParcel" THEN {"description", "area", "cropType", "location"}
    ELSE IF entity_type = "Device"
    THEN {"serialNumber", "description", "deviceType", "status"}
    ELSE IF entity_type = "EnergyMeter" THEN {"meterCode", "meterType", "cups"}
    ELSE IF entity_type = "SolarPanel" THEN {"peakPower", "orientation", "tilt"}
    ELSE IF entity_type = "Building" THEN {"address"}
    ELSE {}

\* what a snapshot carries as its name: nothing, a bare string, an empty string, a
\* Property, a value object, a Property whose value is null, a Relationship
NameValues ==
    {Null, Str("Field A"), Str(""), Wrapped(Str("Field A")), AtWrapped(Str("Field A")),
     Wrapped(Null), Obj([type |-> Str("Relationship"), object |-> Str("urn:x")])}

\* what it carries as another attribute: nothing or a Property
PropValues == {Null, Wrapped(Str("x"))}

\* what it carries as address: nothing, a Property with a postal address, or a Property
\* with the address as one line of text
AddressValues ==
    {Null,
     Wrapped(Obj([streetAddress |-> Str("Calle Mayor 1"), addressLocality |-> Str("Bilbao")])),
     Wrapped(Str("Calle Mayor 1, Bilbao"))}

\* the snapshots of entity e1 under the types of the routing table; an attribute that
\* is Null is one entity.get() answers None for (the key is missing or null)
FullSnapshots ==
    UNION {{[id |-> "e1", type |-> RoutingTypes[k], attrs |-> a] :
               a \in {f \in [AttrNames(RoutingTypes[k]) \cup {"name"} ->
                                NameValues \cup PropValues \cup AddressValues] :
                         /\ f["name"] \in NameValues
                         /\ \A n \in AttrNames(RoutingTypes[k]) :
                               f[n] \in IF n = "address" THEN AddressValues ELSE PropValues}} :
           k \in 1..Len(RoutingTypes)}

\* _get_property_value (lines 320-338)
GetPropertyValue(entity, property_name, default) ==
    LET prop == DictGet(entity.attrs, property_name)
    IN IF prop.t = "null" THEN default
       ELSE IF prop.t = "obj"
       THEN IF "value" \in DOMAIN prop.f THEN prop.f["value"]
            ELSE IF "@value" \in DOMAIN prop.f THEN prop.f["@value"]
            ELSE prop
       ELSE prop

\* _transform_agri_parcel
TransformAgriParcel(entity) ==
    [type |-> Str("product"),
     categ_id |-> Num(1),
     description |-> GetPropertyValue(entity, "description", Null),
     x_area |-> GetPropertyValue(entity, "area", Null),
     x_crop_type |-> GetPropertyValue(entity, "cropType", Null),
     x_location |-> PyStr(GetPropertyValue(entity, "location", Null))]

\* _transform_device
TransformDevice(entity) ==
    [serial_no |-> GetPropertyValue(entity, "serialNumber", Null),
     note |-> GetPropertyValue(entity, "description", Null),
     x_device_type |-> GetPropertyValue(entity, "deviceType", Null),
     x_status |-> GetPropertyValue(entity, "status", Null)]

\* _transform_energy_meter
TransformEnergyMeter(entity) ==
    [code |-> GetPropertyValue(entity, "meterCode", Null),
     meter_type |-> GetPropertyValue(entity, "meterType", Str("production")),
     x_cups |-> GetPropertyValue(entity, "cups", Null)]

\* _transform_solar_panel
TransformSolarPanel(entity) ==
    [installation_type |-> Str("solar"),
     power_peak |-> GetPropertyValue(entity, "peakPower", Null),
     x_orientation |-> GetPropertyValue(entity, "orientation", Null),
     x_tilt |-> GetPropertyValue(entity, "tilt", Null)]

\* address = self._get_property_value(entity, "address") or {} (line 311)
BuildingAddress(entity) ==
    LET address == GetPropertyValue(entity, "address", Null)
    IN IF Truthy(address) THEN address ELSE Obj(<<>>)

\* _transform_building: address.get(...) needs a dict
TransformBuilding(entity) ==
    LET address == BuildingAddress(entity)
    IN [is_company |-> Bool(TRUE),
        street |-> DictGet(address.f, "streetAddress"),
        city |-> DictGet(address.f, "addressLocality"),
        zip |-> DictGet(address.f, "postalCode"),
        country_id |-> Bool(FALSE)]

\* the call raises AttributeError: the address is a text, which has no get()
TransformRaises(entity) ==
    entity.type = "Building" /\ BuildingAddress(entity).t # "obj"

\* _transform_to_odoo (lines 238-270): the base values, updated with those of the type
TransformToOdooValues(entity) ==
    LET name == GetPropertyValue(entity, "name", Null)
        values == [name |-> IF Truthy(name) THEN name ELSE Str(entity.id),
                   x_ngsi_id |-> Str(entity.id)]
    IN IF entity.type = "AgriParcel" THEN TransformAgriParcel(entity) @@ values
       ELSE IF entity.type = "Device" THEN TransformDevice(entity) @@ values
       ELSE IF entity.type = "EnergyMeter" THEN TransformEnergyMeter(entity) @@ values
       ELSE IF entity.type = "SolarPanel" THEN TransformSolarPanel(entity) @@ values
       ELSE IF entity.type = "Building" THEN TransformBuilding(entity) @@ values
       ELSE values

\* sync_entity_to_odoo is entered with a snapshot of a routed type (lines 129-137)
TransformStart(p) ==
    /\ CanStart(p)
    /\ \E t \in callers, entity \in pool :
         loc' = [loc EXCEPT ![p] = [IdleLoc EXCEPT !.op = "transform", !.tenant = t,
                                                   !.entity = entity,
                                                   !.odoo_model = Classify(entity.type)]]
    /\ pc' = [pc EXCEPT ![p] = "transform"]
    /\ opsLeft' = opsLeft - 1
    /\ UNCHANGED <<stores, now, history, faultsLeft>>

\* odoo_values = self._transform_to_odoo(entity, odoo_model) (line 147)
TransformApply(p) ==
    /\ pc[p] = "transform"
    /\ IF TransformRaises(loc[p].entity)
       THEN loc' = [loc EXCEPT ![p].result = "raised", ![p].error = "AttributeError"]
       ELSE loc' = [loc EXCEPT ![p].result = "returned",
                               ![p].values = TransformToOdooValues(loc[p].entity)]
    /\ pc' = [pc EXCEPT ![p] = "done"]
    /\ UNCHANGED <<stores, now, history, opsLeft, faultsLeft>>

\* ------------------------------------------------------------- handle_odoo_webhook
\* tenant_db.replace("nkz_odoo_", "") if tenant_db else None (webhook.py line 174)
TenantOfDatabase(tenant_db) ==
    IF tenant_db = NoValue THEN NoValue
    ELSE LET names == Tenants \cup {"template"}
         IN IF \E x \in names : "nkz_odoo_" \o x = tenant_db
            THEN CHOOSE x \in names : "nkz_odoo_" \o x = tenant_db
            ELSE tenant_db

\* bodies posted to /webhook/odoo by something else than the hooks of a tenant's
\* records: another event name, no database, the template database
ForeignBodies ==
    {[event |-> "record.unlink", model |-> "product.template", record_id |-> 1,
      database |-> TenantDbName("t1"), ngsi_id |-> "e1"],
     [event |-> "record.write", model |-> "product.template", record_id |-> 1,
      database |-> NoValue, ngsi_id |-> "e1"],
     [event |-> "record.create", model |-> "res.partner", record_id |-> 1,
      database |-> ODOO_TEMPLATE_DB, ngsi_id |-> NoValue]}

\* lines 165-180: the body is read, the tenant parsed from the database name, and the
\* event dispatched
OdooWebhookRead(p, body) ==
    LET tenant_id == TenantOfDatabase(body.database)
        l == [IdleLoc EXCEPT !.op = "odoo_webhook", !.event = body.event,
                             !.odoo_model = body.model, !.odoo_id = body.record_id,
                             !.db_name = body.database, !.arg = body.ngsi_id,
                             !.tenant = tenant_id]
    IN IF tenant_id = NoValue
       THEN /\ loc' = [loc EXCEPT ![p] = [l EXCEPT !.result = "ignored"]]
            /\ pc' = [pc EXCEPT ![p] = "done"]
       ELSE IF body.event \in {"record.create", "record.write"}
       THEN /\ loc' = [loc EXCEPT ![p] = l]
            /\ pc' = [pc EXCEPT ![p] = "hook_reverse"]
       ELSE /\ loc' = [loc EXCEPT ![p] = [l EXCEPT !.result = "processed"]]
            /\ pc' = [pc EXCEPT ![p] = "done"]

\* POST /webhook/odoo with the oldest event a hook has posted
OdooWebhookStart(p) ==
    /\ pc[p] = "idle"
    /\ hooks.queue # <<>>
    /\ OdooWebhookRead(p, Head(hooks.queue))
    /\ hooks' = [hooks EXCEPT !.queue = Tail(@)]
    /\ UNCHANGED <<stores, now, creates, returned, raised, opsLeft, faultsLeft, callers,
                   pool, maxLen, trip, gw, posts>>

\* POST /webhook/odoo with another body
OdooWebhookForeign(p) ==
    /\ pc[p] = "idle"
    /\ opsLeft > 0
    /\ \E body \in ForeignBodies : OdooWebhookRead(p, body)
    /\ opsLeft' = opsLeft - 1
    /\ UNCHANGED <<stores, now, history, faultsLeft>>

\* a reverse sync that stamps the record with the time of the sync: update_record on
\* the record the event names, whose write hook posts the next event
SyncOdooToNgsiWritesBack(p) ==
    /\ pc[p] = "hook_reverse"
    /\ hooks' = TriggerNekazariWebhook("write", loc[p].odoo_model, loc[p].odoo_id,
                                       loc[p].db_name, loc[p].arg)
    /\ loc' = [loc EXCEPT ![p].result = "processed"]
    /\ pc' = [pc EXCEPT ![p] = "done"]
    /\ UNCHANGED <<stores, now, creates, returned, raised, opsLeft, faultsLeft, callers,
                   pool, maxLen, trip, gw, posts>>

\* sync_odoo_to_ngsi (ngsi_sync.py lines 185-201): the request is logged, nothing else
\* is done; the response follows (webhook.py lines 182-186)
SyncOdooToNgsi(p) ==
    /\ pc[p] = "hook_reverse"
    /\ loc' = [loc EXCEPT ![p].result = "processed"]
    /\ pc' = [pc EXCEPT ![p] = "done"]
    /\ UNCHANGED <<stores, now, history, opsLeft, faultsLeft>>

OdooWebhookStep(p) ==
    \/ OdooWebhookStart(p)
    \/ OdooWebhookForeign(p)
    \/ SyncOdooToNgsi(p)

\* ------------------------------------------------------------- specifications
UpsertStep(p) ==
    \/ SyncGetDatabase(p)
    \/ SyncLookup(p)
    \/ SyncUpdate(p)
    \/ SyncCreate(p)
    \/ SyncErpFails(p)
    \/ SyncWriteMapping(p)
    \/ SyncWriteMappingFails(p)

NotificationStep(p) ==
    \/ NotificationStart(p)
    \/ NotificationNext(p)
    \/ NotificationDone(p)

FullSyncStep(p) ==
    \/ TriggerSyncStart(p)
    \/ FullSyncFetch(p)
    \/ FullSyncNext(p)
    \/ FullSyncTypeDone(p)
    \/ FullSyncReturn(p)
    \/ TriggerSyncStatus(p)

LifecycleStep(p) ==
    \/ ProvisionStart(p)
    \/ ProvisionCheck(p)
    \/ ProvisionMark(p)
    \/ ProvisionDuplicate(p)
    \/ ProvisionInstall(p)
    \/ ProvisionCreateUser(p)
    \/ ProvisionSave(p)
    \/ ProvisionSubscribe(p)
    \/ ProvisionDone(p)
    \/ ProvisionError(p)
    \/ DeleteStart(p)
    \/ DeleteCheck(p)
    \/ DeleteDrop(p)
    \/ DeleteRecord(p)
    \/ DeleteSubscription(p)
    \/ DeleteDone(p)

\* the tenant lifecycle: provision and decommission requests, handled concurrently
Next == \E p \in Procs : LifecycleStep(p) \/ Finish(p)

Spec == Init /\ [][Next]_vars

\* a handler that has started goes on: every awaited call returns or raises
Continue(p) == pc[p] # "idle" /\ (LifecycleStep(p) \/ Finish(p))

InitLive ==
    /\ tenantInfo = [t \in Tenants |-> NoRow]
    /\ mappings = <<>>
    /\ syncStatus = [t \in Tenants |-> NoStatus]
    /\ odoo = [d \in DbNames |-> IF d = ODOO_TEMPLATE_DB THEN TemplateDb ELSE NoDb]
    /\ subscriptions = {}
    /\ now = 1
    /\ pc = [p \in Procs |-> "idle"]
    /\ loc = [p \in Procs |-> IdleLoc]
    /\ creates = [k \in Keys |-> 0]
    /\ returned = [k \in Keys |-> <<>>]
    /\ raised = [k \in Keys |-> FALSE]
    /\ opsLeft = MaxLiveOps
    /\ faultsLeft = MaxFaults
    /\ callers = OneTenant
    /\ pool = {}
    /\ maxLen = 0
    /\ trip = NoTrip
    /\ posts = NoPosts
    /\ hooks = NoHooks
    /\ gw = NoGateway

\* the tenant lifecycle with every started handler running to its end
LiveSpec == InitLive /\ [][Next]_vars /\ \A p \in Procs : WF_vars(Continue(p))

\* the state a tenant is in once a provision request has succeeded
ProvisionedRow(t, enableEnergyModules) ==
    SaveTenantOdooInfo(SaveTenantOdooInfo(NoRow, Info("provisioning")),
                       ActiveInfo(t, enableEnergyModules))

ProvisionedDb(t, enableEnergyModules) ==
    [TemplateDb EXCEPT !.modules = Range(ModulesToInstall(enableEnergyModules)),
                       !.users = {AdminEmail(t)}]

\* every tenant that sends requests is either unknown or has been provisioned
InitProvisioned(ops, from, snaps, len) ==
    /\ \E active \in SUBSET from :
         /\ tenantInfo = [t \in Tenants |->
                            IF t \in active THEN ProvisionedRow(t, TRUE) ELSE NoRow]
         /\ odoo = [d \in DbNames |->
                      IF d = ODOO_TEMPLATE_DB THEN TemplateDb
                      ELSE IF \E t \in active : d = TenantDbName(t)
                      THEN ProvisionedDb(CHOOSE t \in active : d = TenantDbName(t), TRUE)
                      ELSE NoDb]
         /\ subscriptions = {<<t, RoutingTypes[k]>> : t \in active, k \in 1..Len(RoutingTypes)}
    /\ mappings = <<>>
    /\ syncStatus = [t \in Tenants |-> NoStatus]
    /\ now = 1
    /\ pc = [p \in Procs |-> "idle"]
    /\ loc = [p \in Procs |-> IdleLoc]
    /\ creates = [k \in Keys |-> 0]
    /\ returned = [k \in Keys |-> <<>>]
    /\ raised = [k \in Keys |-> FALSE]
    /\ opsLeft = ops
    /\ faultsLeft = MaxFaults
    /\ callers = from
    /\ pool = snaps
    /\ maxLen = len
    /\ trip = NoTrip
    /\ posts = NoPosts
    /\ hooks = NoHooks
    /\ gw = NoGateway

\* incremental synchronization: notifications of any tenant, handled concurrently
InitSync == InitProvisioned(MaxSyncOps, OneTenant, OneEntity, MaxSyncBatch)

NextSync == \E p \in Procs : NotificationStep(p) \/ UpsertStep(p) \/ Finish(p)

SyncSpec == InitSync /\ [][NextSync]_vars

\* one notification at a time: every handler ends before the next request is taken
InitSeq == InitProvisioned(MaxSeqOps, Tenants, OneEntity, MaxBatch)

NextSeq == NotificationStep(1) \/ UpsertStep(1) \/ Finish(1)

SeqSpec == InitSeq /\ [][NextSeq]_vars

\* the rows provision_tenant can leave for a tenant: none, the row of a request in
\* progress (lines 101-105), the row of a request that failed before its database was
\* recorded, the row of a request that failed after line 141 had recorded it, and the
\* row of a request that succeeded
RowKinds == {"absent", "provisioning", "failed", "failed_late", "active"}

TenantRow(t, kind) ==
    CASE kind = "absent" -> NoRow
      [] kind = "provisioning" -> SaveTenantOdooInfo(NoRow, Info("provisioning"))
      [] kind = "failed" ->
            SaveTenantOdooInfo(SaveTenantOdooInfo(NoRow, Info("provisioning")), Info("error"))
      [] kind = "failed_late" -> SaveTenantOdooInfo(ProvisionedRow(t, TRUE), Info("error"))
      [] OTHER -> ProvisionedRow(t, TRUE)

\* the tenant's ERP database has been built when line 141 is reached
TenantDb(t, kind) ==
    IF kind \in {"failed_late", "active"} THEN ProvisionedDb(t, TRUE) ELSE NoDb

\* notifications for a tenant whose provisioning may have stopped anywhere, one at a time
InitAnyRow ==
    /\ \E kind \in RowKinds :
         /\ tenantInfo = [t \in Tenants |-> IF t \in OneTenant THEN TenantRow(t, kind)
                                            ELSE NoRow]
         /\ odoo = [d \in DbNames |->
                      IF d = ODOO_TEMPLATE_DB THEN TemplateDb
                      ELSE IF \E t \in OneTenant : d = TenantDbName(t)
                      THEN TenantDb(CHOOSE t \in OneTenant : d = TenantDbName(t), kind)
                      ELSE NoDb]
         /\ subscriptions = IF kind = "active"
                            THEN {<<t, RoutingTypes[k]>> :
                                     t \in OneTenant, k \in 1..Len(RoutingTypes)}
                            ELSE {}
    /\ mappings = <<>>
    /\ syncStatus = [t \in Tenants |-> NoStatus]
    /\ now = 1
    /\ pc = [p \in Procs |-> "idle"]
    /\ loc = [p \in Procs |-> IdleLoc]
    /\ creates = [k \in Keys |-> 0]
    /\ returned = [k \in Keys |-> <<>>]
    /\ raised = [k \in Keys |-> FALSE]
    /\ opsLeft = MaxSeqOps
    /\ faultsLeft = MaxFaults
    /\ callers = OneTenant
    /\ pool = OneEntity
    /\ maxLen = MaxBatch
    /\ trip = NoTrip
    /\ posts = NoPosts
    /\ hooks = NoHooks
    /\ gw = NoGateway

AnyRowSpec == InitAnyRow /\ [][NextSeq]_vars

\* subscription identifiers on their way from registration to the webhook, one at a time
NextRoundTrip ==
    \/ RegisterSubscription
    \/ ForeignSubscription
    \/ ParseSubscription
    \/ ForgetSubscription

RoundTripSpec == Init /\ [][NextRoundTrip]_vars

\* single-entity sync requests of one tenant, one at a time
CreateFromNgsiStep(p) ==
    \/ CreateFromNgsiStart(p)
    \/ CreateFromNgsiFetch(p)
    \/ CreateFromNgsiSave(p)
    \/ CreateFromNgsiError(p)

InitDirect == InitProvisioned(MaxDirectOps, OneTenant, OneEntity, MaxBatch)

NextDirect == CreateFromNgsiStep(1) \/ UpsertStep(1) \/ Finish(1)

DirectSpec == InitDirect /\ [][NextDirect]_vars

\* record operations on the database of a tenant that is provisioned or not; a
\* duplicated template database accepts admin / admin
InitGateway ==
    /\ \E active \in SUBSET OneTenant :
         /\ tenantInfo = [t \in Tenants |->
                            IF t \in active THEN ProvisionedRow(t, TRUE) ELSE NoRow]
         /\ odoo = [d \in DbNames |->
                      IF d = ODOO_TEMPLATE_DB THEN TemplateDb
                      ELSE IF \E t \in active : d = TenantDbName(t)
                      THEN ProvisionedDb(CHOOSE t \in active : d = TenantDbName(t), TRUE)
                      ELSE NoDb]
         /\ subscriptions = {<<t, RoutingTypes[k]>> : t \in active, k \in 1..Len(RoutingTypes)}
         /\ gw = [NoGateway EXCEPT !.accepts = {TenantDbName(t) : t \in active}]
    /\ mappings = <<>>
    /\ syncStatus = [t \in Tenants |-> NoStatus]
    /\ now = 1
    /\ pc = [p \in Procs |-> "idle"]
    /\ loc = [p \in Procs |-> IdleLoc]
    /\ creates = [k \in Keys |-> 0]
    /\ returned = [k \in Keys |-> <<>>]
    /\ raised = [k \in Keys |-> FALSE]
    /\ opsLeft = MaxGatewayCalls
    /\ faultsLeft = MaxFaults
    /\ callers = OneTenant
    /\ pool = {}
    /\ maxLen = 0
    /\ trip = NoTrip
    /\ posts = NoPosts
    /\ hooks = NoHooks

NextGateway ==
    \/ RevokeCredential
    \/ \E p \in Procs :
         GatewayCall(p) \/ GatewayAuthenticate(p) \/ GatewayExecute(p) \/ GatewayReturn(p)

GatewaySpec == InitGateway /\ [][NextGateway]_vars

\* install_modules calls on a freshly duplicated database, one at a time
InitInstall ==
    /\ tenantInfo = [t \in Tenants |->
                       IF t \in OneTenant
                       THEN SaveTenantOdooInfo(NoRow, Info("provisioning")) ELSE NoRow]
    /\ odoo = [d \in DbNames |->
                 IF d = ODOO_TEMPLATE_DB \/ \E t \in OneTenant : d = TenantDbName(t)
                 THEN TemplateDb ELSE NoDb]
    /\ subscriptions = {}
    /\ gw = [NoGateway EXCEPT !.accepts = {TenantDbName(t) : t \in OneTenant}]
    /\ mappings = <<>>
    /\ syncStatus = [t \in Tenants |-> NoStatus]
    /\ now = 1
    /\ pc = [p \in Procs |-> "idle"]
    /\ loc = [p \in Procs |-> IdleLoc]
    /\ creates = [k \in Keys |-> 0]
    /\ returned = [k \in Keys |-> <<>>]
    /\ raised = [k \in Keys |-> FALSE]
    /\ opsLeft = MaxInstallCalls
    /\ faultsLeft = MaxFaults
    /\ callers = OneTenant
    /\ pool = {}
    /\ maxLen = 0
    /\ trip = NoTrip
    /\ posts = NoPosts
    /\ hooks = NoHooks

NextInstall ==
    \/ RevokeCredential
    \/ InstallCall(1)
    \/ GatewayAuthenticate(1)
    \/ InstallSearch(1)
    \/ InstallButton(1)
    \/ GatewayReturn(1)

InstallSpec == InitInstall /\ [][NextInstall]_vars

\* provision and decommission requests of one tenant, one at a time, with the broker's
\* answers to the registrations kept
InitRegister ==
    /\ tenantInfo = [t \in Tenants |-> NoRow]
    /\ mappings = <<>>
    /\ syncStatus = [t \in Tenants |-> NoStatus]
    /\ odoo = [d \in DbNames |-> IF d = ODOO_TEMPLATE_DB THEN TemplateDb ELSE NoDb]
    /\ subscriptions = {}
    /\ now = 1
    /\ pc = [p \in Procs |-> "idle"]
    /\ loc = [p \in Procs |-> IdleLoc]
    /\ creates = [k \in Keys |-> 0]
    /\ returned = [k \in Keys |-> <<>>]
    /\ raised = [k \in Keys |-> FALSE]
    /\ opsLeft = MaxRegisterOps
    /\ faultsLeft = MaxFaults
    /\ callers = OneTenant
    /\ pool = {}
    /\ maxLen = 0
    /\ trip = NoTrip
    /\ posts = [NoPosts EXCEPT !.keep = MaxPostsKept]
    /\ hooks = NoHooks
    /\ gw = NoGateway

NextRegister == LifecycleStep(1) \/ Finish(1)

RegisterSpec == InitRegister /\ [][NextRegister]_vars

\* full synchronization runs of one tenant, one at a time, each of which the caller may
\* cancel at any await
InitAbort == InitProvisioned(MaxAbortRuns, OneTenant, Parcels, MaxBatch)

NextAbort == FullSyncStep(1) \/ UpsertStep(1) \/ FullSyncAbort(1) \/ Finish(1)

AbortSpec == InitAbort /\ [][NextAbort]_vars

\* workflow events of one tenant, provisioned or not, one at a time
InitN8n == InitProvisioned(MaxWorkflowEvents, OneTenant, OneFetchable, MaxSyncBatch)

NextN8n ==
    \/ N8nStep(1)
    \/ FullSyncFetch(1)
    \/ FullSyncNext(1)
    \/ FullSyncTypeDone(1)
    \/ FullSyncReturn(1)
    \/ UpsertStep(1)
    \/ Finish(1)

N8nSpec == InitN8n /\ [][NextN8n]_vars

\* notifications carrying one entity of any declared type, one at a time
InitClassify == InitProvisioned(MaxClassifyOps, OneTenant, TypedSnapshots, MaxSyncBatch)

NextClassify == NotificationStep(1) \/ UpsertStep(1) \/ Finish(1)

ClassifySpec == InitClassify /\ [][NextClassify]_vars

\* the transformation applied to a snapshot of a routed type
InitTransform == InitProvisioned(MaxTransformCalls, OneTenant, FullSnapshots, 0)

NextTransform == TransformStart(1) \/ TransformApply(1) \/ Finish(1)

TransformSpec == InitTransform /\ [][NextTransform]_vars

\* provision, decommission and notification requests of one tenant, one at a time
InitReprovision == InitProvisioned(MaxReprovisionOps, OneTenant, Parcels, MaxBatch)

NextReprovision == LifecycleStep(1) \/ NotificationStep(1) \/ UpsertStep(1) \/ Finish(1)

ReprovisionSpec == InitReprovision /\ [][NextReprovision]_vars

\* every operation of the engine on one tenant (provision, decommission, notification,
\* full synchronization, single-entity sync), one request at a time
InitEngine == InitProvisioned(MaxEngineOps, OneTenant, OneFetchable, MaxBatch)

NextEngine ==
    \/ LifecycleStep(1)
    \/ NotificationStep(1)
    \/ FullSyncStep(1)
    \/ CreateFromNgsiStep(1)
    \/ UpsertStep(1)
    \/ Finish(1)

EngineSpec == InitEngine /\ [][NextEngine]_vars

\* notifications of a provisioned tenant handled by one handler while the events the
\* ERP-side hooks post, and other bodies, are handled by the other
InitHook ==
    /\ tenantInfo = [t \in Tenants |-> IF t \in OneTenant THEN ProvisionedRow(t, TRUE)
                                       ELSE NoRow]
    /\ odoo = [d \in DbNames |->
                 IF d = ODOO_TEMPLATE_DB THEN TemplateDb
                 ELSE IF \E t \in OneTenant : d = TenantDbName(t)
                 THEN ProvisionedDb(CHOOSE t \in OneTenant : d = TenantDbName(t), TRUE)
                 ELSE NoDb]
    /\ subscriptions = {<<t, RoutingTypes[k]>> : t \in OneTenant, k \in 1..Len(RoutingTypes)}
    /\ mappings = <<>>
    /\ syncStatus = [t \in Tenants |-> NoStatus]
    /\ now = 1
    /\ pc = [p \in Procs |-> "idle"]
    /\ loc = [p \in Procs |-> IdleLoc]
    /\ creates = [k \in Keys |-> 0]
    /\ returned = [k \in Keys |-> <<>>]
    /\ raised = [k \in Keys |-> FALSE]
    /\ opsLeft = MaxHookOps
    /\ faultsLeft = MaxFaults
    /\ callers = OneTenant
    /\ pool = OneFetchable
    /\ maxLen = MaxBatch
    /\ trip = NoTrip
    /\ posts = NoPosts
    /\ hooks = [NoHooks EXCEPT !.on = TRUE]
    /\ gw = NoGateway

NextHook ==
    \/ NotificationStep(1)
    \/ UpsertStep(1)
    \/ Finish(1)
    \/ OdooWebhookStep(2)
    \/ Finish(2)

HookSpec == InitHook /\ [][NextHook]_vars

\* full synchronization runs of one tenant, one at a time
InitFullSync == InitProvisioned(MaxFullSyncs, OneTenant, Fetchable, MaxBatch)

NextFullSync == FullSyncStep(1) \/ UpsertStep(1) \/ Finish(1)

FullSyncSpec == InitFullSync /\ [][NextFullSync]_vars

\* several full synchronization runs of one tenant, one after the other, over a
\* broker that holds one entity
InitStatus == InitProvisioned(MaxStatusRuns, OneTenant, OneFetchable, MaxBatch)

StatusSpec == InitStatus /\ [][NextFullSync]_vars

\* ------------------------------------------------------------- properties
\* the handler p takes the step
Moved(p) == pc'[p] # pc[p] \/ loc'[p] # loc[p]

\* the positions inside sync_entity_to_odoo
UpsertPcs == {"sync_getdb", "sync_lookup", "sync_erp", "sync_map"}

\* C1: as long as no sync_entity_to_odoo call for a key (tenant, entity id) has raised
\* and the calls do not overlap, every call made for the key has returned the same
\* ERP record id, one create_record has been issued for it, and one mapping row
\* exists for it, holding that id.
C1_SequentialUpsertsIdempotent ==
    \A k \in Keys :
        ~raised[k] =>
            LET rows == MappingRowsByNgsiId(mappings, k[1], k[2])
            IN /\ creates[k] <= 1
               /\ Len(rows) <= 1
               /\ \A i \in 1..Len(returned[k]) : returned[k][i] = returned[k][1]
               /\ returned[k] # <<>> =>
                     /\ creates[k] = 1
                     /\ Len(rows) = 1
                     /\ rows[1].odoo_id = returned[k][1]

\* two calls for the same key have returned, none has raised
C1_Witness ==
    \E k \in Keys :
        /\ ~raised[k]
        /\ Len(returned[k]) >= 2
        /\ creates[k] = 1
        /\ tenantInfo[k[1]].status = "active"

\* C2: when no call fails, concurrent sync_entity_to_odoo calls for the same key issue
\* at most one create_record for it.
C2_ConcurrentUpsertsCreateOnce ==
    \A k \in Keys : faultsLeft = MaxFaults => creates[k] <= 1

\* C3: a step of sync_entity_to_odoo made for a tenant works on the database named
\* after that tenant, whose name differs from every other tenant's, and leaves every
\* other tenant's row, database and mapping rows as they were.
C3_UpsertStaysInTenant ==
    [][\A p \in Procs :
          pc[p] \in UpsertPcs /\ Moved(p) =>
             /\ loc[p].db_name \in {NoValue, TenantDbName(loc[p].tenant)}
             /\ \A b \in Tenants \ {loc[p].tenant} :
                   /\ TenantDbName(b) # TenantDbName(loc[p].tenant)
                   /\ odoo'[TenantDbName(b)] = odoo[TenantDbName(b)]
                   /\ tenantInfo'[b] = tenantInfo[b]
                   /\ GetEntityMappings(mappings', b, NoValue)
                         = GetEntityMappings(mappings, b, NoValue)]_vars

\* a call for t2 has succeeded while t1 holds a mapping and a record for the same id
C3_Witness ==
    /\ pc[1] = "notify_loop"
    /\ loc[1].tenant = "t2"
    /\ loc[1].ok = {"e1"}
    /\ MappingRowsByNgsiId(mappings, "t1", "e1") # <<>>
    /\ odoo[TenantDbName("t1")].records # {}
    /\ odoo[TenantDbName("t2")].records # {}

\* C4: whatever the table holds, get_entity_mappings(A, type or none) and
\* get_entity_mapping_by_ngsi_id(A, id) return rows of tenant A only.
C4_ReadsScopedByTenant ==
    \A a \in Tenants :
        /\ \A ty \in SnapshotTypes \cup {NoValue} :
              LET rows == GetEntityMappings(mappings, a, ty)
              IN \A i \in 1..Len(rows) : rows[i].tenant_id = a
        /\ \A id \in EntityIds :
              LET row == GetEntityMappingByNgsiId(mappings, a, id)
              IN row # <<>> => row[1].tenant_id = a /\ row[1].ngsi_id = id

\* both tenants hold a mapping for the same entity id and type
C4_Witness ==
    /\ Len(GetEntityMappings(mappings, "t1", "AgriParcel")) = 1
    /\ Len(GetEntityMappings(mappings, "t2", "AgriParcel")) = 1
    /\ GetEntityMappingByNgsiId(mappings, "t1", "e1") # <<>>
    /\ GetEntityMappingByNgsiId(mappings, "t2", "e1") # <<>>

\* full_sync has returned to trigger_sync: its result is in the handler's locals
FullSyncReturned(p) == pc[p] = "ts_status"

\* what C5 says of a run apart from the length of the error list: every fetched entity
\* has been attempted once, the count returned is the attempts less the failed
\* upserts, and every entity synced has a mapping row
FullSyncAttemptsAll(p) ==
    /\ loc[p].attempted = loc[p].fetched
    /\ loc[p].synced = loc[p].fetched - loc[p].failed
    /\ \A id \in loc[p].ok : MappingRowsByNgsiId(mappings, loc[p].tenant, id) # <<>>

\* C5: when full_sync returns after fetching N entities of which F failed in
\* sync_entity_to_odoo, it has attempted each of the N once, synced is N - F, the
\* error list has F entries, and every entity synced has a mapping row.
C5_FullSyncCounts ==
    \A p \in Procs :
        FullSyncReturned(p) =>
            /\ FullSyncAttemptsAll(p)
            /\ Len(loc[p].errors) = loc[p].failed

\* C5, amended: the error list has one entry for each failed upsert and one for each
\* type whose fetch raised; the rest is as claimed.
C5_FullSyncCountsWithFetchErrors ==
    \A p \in Procs :
        FullSyncReturned(p) =>
            /\ FullSyncAttemptsAll(p)
            /\ Len(loc[p].errors) = loc[p].failed + loc[p].fetch_errors

\* a run over three entities of two types of which one failed and two were synced
C5_Witness ==
    \E p \in Procs :
        /\ FullSyncReturned(p)
        /\ loc[p].fetched = 3
        /\ loc[p].failed = 1
        /\ loc[p].synced = 2
        /\ Len(loc[p].errors) = 1

\* C6: a sync_entity_to_odoo call for an entity whose type is not a key of
\* NGSI_TO_ODOO_MODEL ends in its first step with the unsupported-type error: the
\* tenant's database is not looked up, whether the tenant is provisioned or not, and
\* the tables, the ERP and the count of creates stay as they were. A call for a routed
\* type goes on to look up the database.
C6_UnsupportedTypeShortCircuits ==
    [][\A p \in Procs :
          pc[p] = "notify_loop" /\ loc[p].i <= loc[p].n /\ Moved(p) =>
             IF loc'[p].entity.type \in DOMAIN NGSI_TO_ODOO_MODEL
             THEN pc'[p] = "sync_getdb"
             ELSE /\ pc'[p] = "notify_loop"
                  /\ loc'[p].errors = Append(loc[p].errors,
                                             [what |-> loc'[p].entity.id,
                                              err |-> "UnsupportedType"])
                  /\ loc'[p].db_name = NoValue
                  /\ loc'[p].synced = loc[p].synced
                  /\ UNCHANGED <<stores, creates, returned>>]_vars

\* a call for an entity of an unrouted type, made for a tenant that has no row, has
\* ended with the unsupported-type error
C6_Witness ==
    \E p \in Procs :
        /\ pc[p] = "notify_loop"
        /\ loc[p].errors # <<>>
        /\ loc[p].errors[Len(loc[p].errors)].err = "UnsupportedType"
        /\ loc[p].entity.type = "Robot"
        /\ tenantInfo[loc[p].tenant] = NoRow

\* the transitions of the lifecycle: pending -> provisioning -> {active, error},
\* error -> provisioning, anything -> absent by decommission
LifecycleTransition(from, to) ==
    \/ to = "provisioning" /\ from \in {"absent", "pending", "error"}
    \/ to = "active" /\ from = "provisioning"
    \/ to = "error" /\ from = "provisioning"
    \/ to = "absent"

\* C7: the status of a tenant's row changes only along the transitions of the
\* lifecycle.
C7_StatusFollowsLifecycle ==
    [][\A t \in Tenants :
          tenantInfo'[t].status # tenantInfo[t].status =>
             LifecycleTransition(tenantInfo[t].status, tenantInfo'[t].status)]_vars

\* C8: a provision request that finds its tenant's row active answers Conflict at the
\* check and ends there: the row, the ERP, the subscriptions and the other tables are
\* as they were.
C8_ProvisionActiveConflicts ==
    [][\A p \in Procs :
          /\ (pc[p] = "prov_check" /\ Moved(p)
                 /\ tenantInfo[loc[p].tenant].status = "active")
               => /\ pc'[p] = "done"
                  /\ loc'[p].result = "Conflict"
                  /\ UNCHANGED stores
          /\ (pc[p] = "done" /\ loc[p].result = "Conflict" /\ Moved(p))
               => pc'[p] = "idle" /\ UNCHANGED stores]_vars

\* a provision request has answered Conflict for a tenant whose row is active
C8_Witness ==
    \E p \in Procs :
        /\ pc[p] = "done"
        /\ loc[p].op = "provision"
        /\ loc[p].result = "Conflict"
        /\ tenantInfo[loc[p].tenant].status = "active"

\* the steps of provision_tenant, in order
ProvisionSteps == <<"duplicate", "install", "create_user", "subscriptions">>

\* the positions at which provision_tenant is about to make an external call
ExternalCallPcs == {"prov_dup", "prov_install", "prov_user", "prov_subs"}

\* C9: while a provision request that no other request runs beside is about to call
\* duplicate_database, install_modules, create_user or to register a subscription,
\* the tenant's row exists with status provisioning.
C9_ProvisioningWhileCalling ==
    \A p \in Procs :
        /\ pc[p] \in ExternalCallPcs
        /\ pc[p] = "prov_subs" => loc[p].ti <= Len(RoutingTypes)
        /\ \A q \in Procs \ {p} : pc[q] = "idle"
        => tenantInfo[loc[p].tenant].status = "provisioning"

\* C10: a provision request completes its steps in the order of ProvisionSteps, and
\* a row becomes active, with the installed modules recorded, only by a request that has
\* completed all four.
C10_ActiveAfterAllSteps ==
    [][\A t \in Tenants :
          tenantInfo'[t].status = "active" /\ tenantInfo[t].status # "active" =>
             \E p \in Procs :
                /\ loc[p].op = "provision"
                /\ loc[p].tenant = t
                /\ loc[p].steps = ProvisionSteps
                /\ tenantInfo'[t].installed_modules = ModulesToInstall(loc[p].energy)]_vars

\* the handler p runs with no other request in progress
Alone(p) == \A q \in Procs \ {p} : pc[q] = "idle"

\* C11: when a provision request that ran alone ends after one of its steps failed,
\* the tenant's row has status error and its error column holds the message of the
\* exception that was caught.
C11_ErrorMessageStored ==
    \A p \in Procs :
        /\ pc[p] = "done"
        /\ loc[p].op = "provision"
        /\ loc[p].result = "error"
        /\ Alone(p)
        => /\ tenantInfo[loc[p].tenant].status = "error"
           /\ tenantInfo[loc[p].tenant].error = loc[p].error

\* a provision request for tenant t is between its first and its last step
Provisioning(t) ==
    \E p \in Procs :
        /\ loc[p].op = "provision"
        /\ loc[p].tenant = t
        /\ pc[p] \notin {"idle", "done"}

CallFails == faultsLeft' # faultsLeft

\* C13: a delete request that finds no row for its tenant answers NotFound and changes
\* nothing; one that finds a row drops the tenant's database, then removes the row
\* (no row is left, not a row with another status), then cancels the subscriptions,
\* as long as the ERP and the broker do not fail the calls.
C13_DecommissionSteps ==
    [][\A p \in Procs :
          /\ (pc[p] = "del_check" /\ Moved(p)) =>
                IF tenantInfo[loc[p].tenant] = NoRow
                THEN pc'[p] = "done" /\ loc'[p].result = "NotFound" /\ UNCHANGED stores
                ELSE pc'[p] = "del_drop" /\ UNCHANGED stores
          /\ (pc[p] = "done" /\ loc[p].result = "NotFound" /\ Moved(p)) => UNCHANGED stores
          /\ (pc[p] = "del_drop" /\ Moved(p) /\ ~CallFails) =>
                /\ pc'[p] = "del_save"
                /\ ~odoo'[TenantDbName(loc[p].tenant)].exists
                /\ UNCHANGED <<tenantInfo, subscriptions>>
          /\ (pc[p] = "del_save" /\ Moved(p)) =>
                /\ pc'[p] = "del_subs"
                /\ tenantInfo'[loc[p].tenant] = NoRow
                /\ UNCHANGED <<odoo, subscriptions>>
          /\ (pc[p] = "del_subs" /\ Moved(p) /\ ~CallFails) =>
                /\ UNCHANGED <<tenantInfo, odoo>>
                /\ pc'[p] = "done" =>
                      /\ loc'[p].steps = <<"drop", "remove", "unsubscribe">>
                      /\ \A k \in 1..Len(RoutingTypes) :
                            <<loc[p].tenant, RoutingTypes[k]>> \notin subscriptions]_vars

\* C14: a delete request has removed the tenant's row before it cancels the first
\* subscription, and no cancellation, whether the broker answers it, rejects it or
\* cannot be reached, writes the row or takes the request back to an earlier step:
\* the row the request removed is not restored by it.
C14_RowRemovedBeforeCancelling ==
    [][\A p \in Procs :
          /\ (pc[p] = "del_save" /\ Moved(p)) =>
                pc'[p] = "del_subs" /\ tenantInfo'[loc[p].tenant] = NoRow
          /\ (pc[p] = "del_subs" /\ Moved(p)) =>
                /\ pc'[p] \in {"del_subs", "done"}
                /\ UNCHANGED tenantInfo]_vars

\* a delete request has ended with an error raised by a cancellation: the tenant's
\* database is dropped and its row is gone, a subscription is left
C14_Witness ==
    \E p \in Procs :
        /\ pc[p] = "done"
        /\ loc[p].op = "delete"
        /\ loc[p].result = "error"
        /\ loc[p].steps = <<"drop", "remove">>
        /\ tenantInfo[loc[p].tenant] = NoRow
        /\ \E k \in 1..Len(RoutingTypes) : <<loc[p].tenant, RoutingTypes[k]>> \in subscriptions

\* C15: when a request that synchronized entities of a tenant has ended, by a full
\* sync or by a notification, the tenant's row of odoo_sync_status has status synced.
C15_SyncStatusWritten ==
    \A p \in Procs :
        /\ pc[p] = "done"
        /\ loc[p].op \in {"notify", "full_sync"}
        /\ loc[p].result \in {"processed", "synced"}
        => syncStatus[loc[p].tenant].status = "synced"

\* C16: the step that ends a triggered full sync leaves in the tenant's row of
\* odoo_sync_status the count and the error list of that run, whatever the row held
\* from earlier runs, and no other step of a run writes the table.
C16_SyncStatusOverwritten ==
    [][\A p \in Procs :
          Moved(p) =>
             IF pc[p] = "ts_status"
             THEN /\ syncStatus'[loc[p].tenant].status = "synced"
                  /\ syncStatus'[loc[p].tenant].entities_synced = loc[p].synced
                  /\ syncStatus'[loc[p].tenant].errors = loc[p].errors
                  /\ \A t \in Tenants \ {loc[p].tenant} : syncStatus'[t] = syncStatus[t]
             ELSE UNCHANGED syncStatus]_vars

\* a second run has ended: it synced the entity, which the run before it had failed
\* to sync, and the row holds the count and the empty error list of the second run
C16_Witness ==
    \E p \in Procs :
        /\ pc[p] = "done"
        /\ loc[p].op = "full_sync"
        /\ opsLeft = MaxStatusRuns - 2
        /\ loc[p].synced = 1
        /\ loc[p].errors = <<>>
        /\ raised[<<loc[p].tenant, "e1">>]
        /\ Len(returned[<<loc[p].tenant, "e1">>]) = 1
        /\ syncStatus[loc[p].tenant].entities_synced = 1
        /\ syncStatus[loc[p].tenant].errors = <<>>

\* C17: full_sync returns a result whatever fails, having gone through every type of
\* the routing table, and its error list has one entry for each failed upsert, one for
\* each type whose fetch raised and one for each type whose fetch was answered with
\* an error response.
C17_EveryFailureListed ==
    \A p \in Procs :
        FullSyncReturned(p) =>
            /\ loc[p].ti = Len(RoutingTypes) + 1
            /\ Len(loc[p].errors) =
                  loc[p].failed + loc[p].fetch_errors + loc[p].fetch_rejected

\* the tenant has no row, or a row whose status is provisioning or error
NoActiveDatabase(t) == tenantInfo[t] = NoRow \/ tenantInfo[t].status \in {"provisioning", "error"}

\* C18: while the tenant has no row, or a row in status provisioning or error, every
\* sync_entity_to_odoo call for an entity of a supported type ends with
\* TenantNotProvisioned, and no ERP record is created or updated and no mapping written.
C18_NoUpsertWithoutActiveRow ==
    [][\A p \in Procs :
          (pc[p] = "sync_getdb" /\ Moved(p) /\ NoActiveDatabase(loc[p].tenant)) =>
              /\ pc'[p] = loc[p].caller
              /\ Len(loc'[p].errors) = Len(loc[p].errors) + 1
              /\ loc'[p].errors[Len(loc'[p].errors)].err = "TenantNotProvisioned"
              /\ UNCHANGED <<odoo, mappings>>]_vars

\* C19: the identifier register_tenant_subscriptions generates for a tenant id and a
\* type of the routing table is parsed by _extract_tenant_from_subscription to that
\* tenant id, whatever the tenant id; an identifier with fewer parts than expected or
\* another prefix is parsed to no tenant.
C19_SubscriptionIdRoundTrip ==
    /\ trip.at = "parsed" => trip.tenant = ColonJoin(trip.tenant_id)
    /\ trip.at = "parsed_foreign" => trip.tenant = NoValue

\* the handler's notification carries an identifier that parses to no tenant
Unparsable(l) ==
    l.op = "notify" /\ ExtractTenantFromSubscription(l.subscription_id) = NoValue

\* C20: a notification whose subscription identifier parses to no tenant is answered
\* "ignored" at once, however many entities it carries: its handler never enters
\* sync_entity_to_odoo, and no step of it changes the ERP, the mapping store or any
\* other store.
C20_UnknownSubscriptionIgnored ==
    [][\A p \in Procs :
          /\ Unparsable(loc'[p]) =>
                /\ pc'[p] = "done"
                /\ loc'[p].result = "ignored"
                /\ loc'[p].attempted = 0
          /\ (Moved(p) /\ (Unparsable(loc[p]) \/ Unparsable(loc'[p]))) =>
                UNCHANGED <<stores, creates, returned, raised>>]_vars

\* a notification of two entities for a subscription that is not this service's has
\* been answered "ignored" while the tenant of the other requests is provisioned
C20_Witness ==
    \E p \in Procs :
        /\ pc[p] = "done"
        /\ Unparsable(loc[p])
        /\ loc[p].n = 2
        /\ loc[p].result = "ignored"
        /\ tenantInfo["t1"].status = "active"
        /\ mappings = <<>>

\* the rows of the table that belong to other keys than (tenant_id, ngsi_id), in order
OtherMappingRows(table, tenant_id, ngsi_id) ==
    SelectSeq(table, LAMBDA r : ~(r.tenant_id = tenant_id /\ r.ngsi_id = ngsi_id))

\* C21: every step changes odoo_entity_mappings only through create_entity_mapping,
\* and after that call the table has one row for the key (tenant, entity id), whose
\* odoo_id, odoo_model, odoo_name and last_sync are those of the call, while the rows of
\* the other keys are what they were; no key ever has two rows.
C21_MappingLastWriterWins ==
    [][/\ \A p \in Procs :
             (pc[p] = "sync_map" /\ pc'[p] # "sync_map" /\ ~CallFails) =>
                LET rows == MappingRowsByNgsiId(mappings', loc[p].tenant, loc[p].entity.id)
                IN /\ Len(rows) = 1
                   /\ rows[1].odoo_id = loc[p].odoo_id
                   /\ rows[1].odoo_model = loc[p].odoo_model
                   /\ rows[1].odoo_name = TransformToOdoo(loc[p].entity).name
                   /\ rows[1].last_sync = now
                   /\ OtherMappingRows(mappings', loc[p].tenant, loc[p].entity.id)
                         = OtherMappingRows(mappings, loc[p].tenant, loc[p].entity.id)
       /\ (\A p \in Procs : pc[p] = "sync_map" => pc'[p] = "sync_map" \/ CallFails)
             => UNCHANGED mappings
       /\ \A k \in Keys : Len(MappingRowsByNgsiId(mappings', k[1], k[2])) <= 1]_vars

\* both tenants hold a row for e1; t1's row was written twice, last by a snapshot
\* without a name, and holds that call's name and time
C21_Witness ==
    /\ Len(returned[<<"t1", "e1">>]) = 2
    /\ Len(returned[<<"t2", "e1">>]) = 1
    /\ LET rows == MappingRowsByNgsiId(mappings, "t1", "e1")
       IN /\ Len(rows) = 1
          /\ rows[1].odoo_name = "e1"
          /\ rows[1].last_sync > 2

\* C22: the odoo_id and odoo_model of every mapping row denote a record of the tenant's
\* database that was created for the row's entity, also when the entity has been
\* delivered again under another declared type.
C22_MappingDenotesOwnRecord ==
    \A i \in 1..Len(mappings) :
        LET r == mappings[i]
        IN \E rec \in odoo[TenantDbName(r.tenant_id)].records :
              /\ rec.model = r.odoo_model
              /\ rec.id = r.odoo_id
              /\ rec.created_for = r.ngsi_id

\* the ERP call the handler makes in this step fails
ErpCallFails(p) ==
    /\ pc[p] = "sync_erp"
    /\ Moved(p)
    /\ \/ CallFails
       \/ ~CanAuthenticate(loc[p].db_name)
       \/ /\ loc[p].existing # <<>>
          /\ ~RecordExists(loc[p].db_name, loc[p].odoo_model, loc[p].existing[1].odoo_id)

\* C23: when the create_record or update_record of a sync_entity_to_odoo call made by
\* create_entity_from_ngsi fails, the call raises to the handler without touching
\* odoo_entity_mappings, and the handler answers with an error, again without
\* touching it: no row is created and an existing row keeps its values.
C23_DirectFailureLeavesMapping ==
    [][\A p \in Procs :
          loc[p].op = "create_from_ngsi" =>
             /\ ErpCallFails(p) =>
                   /\ pc'[p] = "cfn_save"
                   /\ loc'[p].failed = loc[p].failed + 1
                   /\ UNCHANGED mappings
             /\ (pc[p] = "cfn_save" /\ loc[p].failed > 0 /\ Moved(p)) =>
                   /\ pc'[p] = "done"
                   /\ loc'[p].result = "error"
                   /\ UNCHANGED mappings]_vars

\* a second request for an entity already mapped has been answered with an error after
\* its update_record failed, and the row written by the first request is as it was
C23_Witness ==
    \E p \in Procs :
        /\ pc[p] = "done"
        /\ loc[p].op = "create_from_ngsi"
        /\ loc[p].result = "error"
        /\ loc[p].errors # <<>>
        /\ loc[p].errors[1].err = "RemoteCallFailure"
        /\ LET rows == MappingRowsByNgsiId(mappings, loc[p].tenant, loc[p].entity.id)
           IN /\ Len(rows) = 1
              /\ rows[1].last_sync = 2
              /\ rows[1].odoo_id = returned[Key(p)][1]

\* C24: every request of a record operation that reaches the ERP is sent by a client
\* object that authenticated in the same gateway call against the database the
\* request names; a call whose authentication is rejected ends failed with no request
\* sent; the database changes only in a step that sends a request.
C24_AuthenticateBeforeEveryOperation ==
    [][\A p \in Procs :
          LET c == gw.client[p]
              d == gw'.client[p]
          IN /\ d.sent > c.sent =>
                   /\ c.uid = AdminUid
                   /\ c.auth_call = c.call
                   /\ c.auth_db = c.db
             /\ (c.at = "new" /\ d.at # "new" /\ c.db \notin gw.accepts) =>
                   d.at = "failed" /\ d.uid = 0 /\ d.sent = 0
             /\ (d.at \in {"failed", "none"} /\ d.uid = 0) => d.sent = 0
             /\ (\A q \in Procs : gw'.client[q].sent <= gw.client[q].sent) =>
                   UNCHANGED odoo]_vars

\* a call on a database has failed at authentication, with no request sent, after an
\* earlier call on the same database went through and the credential was then revoked
C24_Witness ==
    \E p \in Procs :
        LET c == gw.client[p]
        IN /\ c.at = "failed"
           /\ c.uid = 0
           /\ c.sent = 0
           /\ c.db \notin gw.accepts
           /\ Len(gw.log) = 1
           /\ gw.log[1].db = c.db
           /\ gw.log[1].call < c.call

\* the module ids of the last request the ERP received
LastRequest(log) == IF log = <<>> THEN {} ELSE log[Len(log)].ids

\* C25: install_modules asks the ERP to install only modules that are named in the
\* call and not installed in the database; a call made after a call with the same
\* names has completed sends no install request and leaves the installed set as it is.
C25_InstallIdempotent ==
    [][\A p \in Procs :
          LET c == gw.client[p]
              d == gw'.client[p]
          IN (c.op = "install" /\ c.at = "searched" /\ d.at # "searched") =>
                /\ d.sent > c.sent =>
                      /\ c.module_ids # {}
                      /\ c.module_ids \subseteq Range(c.modules)
                      /\ c.module_ids \cap odoo[c.db].modules = {}
                      /\ Len(gw'.log) > Len(gw.log) => LastRequest(gw'.log) = c.module_ids
                /\ c.modules \in gw.completed =>
                      /\ d.sent = c.sent
                      /\ gw'.log = gw.log
                      /\ UNCHANGED odoo]_vars

\* a second call with the base and energy modules has returned without a request: the
\* first one installed them all, and the log holds that one request
C25_Witness ==
    \E p \in Procs :
        LET c == gw.client[p]
        IN /\ c.at = "returned"
           /\ c.op = "install"
           /\ c.call = 2
           /\ c.modules = ModulesToInstall(TRUE)
           /\ c.sent = 0
           /\ Len(gw.log) = 1
           /\ gw.log[1].ids = Registry
           /\ odoo[c.db].modules = Registry

\* the answers of the broker to the last registration that ran to its end
LastAnswers(answers) == SubSeq(answers, Len(answers) - Len(RoutingTypes) + 1, Len(answers))

\* C26: register_tenant_subscriptions posts one subscription per type of the routing
\* table, in its order; an answer 201 or 409 leaves the subscription registered and the
\* registration goes on without an error, 409 changing nothing at the broker; when a
\* registration whose answers were all 201 or 409 has ended, the tenant has exactly the
\* subscriptions of the routing table, one identifier per type, whether it was the
\* first registration of the tenant or a later one.
C26_RegistrationIdempotent ==
    [][\A p \in Procs :
          /\ Len(posts'.answers) > Len(posts.answers) =>
                LET a == posts'.answers[Len(posts'.answers)]
                IN (pc[p] = "prov_subs" /\ loc'[p] # loc[p]) =>
                      /\ a.tenant = loc[p].tenant
                      /\ a.type = RoutingTypes[loc[p].ti]
                      /\ a.status = 409 => UNCHANGED subscriptions
                      /\ a.status \in {201, 409} =>
                            /\ <<a.tenant, a.type>> \in subscriptions'
                            /\ pc'[p] = "prov_subs"
                            /\ loc'[p].ti = loc[p].ti + 1
                            /\ loc'[p].error = NoValue
          /\ (pc[p] = "prov_subs" /\ pc'[p] = "done"
                 /\ Len(posts.answers) >= Len(RoutingTypes)
                 /\ \A k \in 1..Len(RoutingTypes) :
                        LastAnswers(posts.answers)[k].status \in {201, 409}) =>
                /\ loc'[p].result = "active"
                /\ {s \in subscriptions' : s[1] = loc[p].tenant} =
                      {<<loc[p].tenant, RoutingTypes[k]>> : k \in 1..Len(RoutingTypes)}
                /\ Cardinality({SubscriptionId(s[1], s[2]) : s \in subscriptions'}) =
                      Len(RoutingTypes)]_vars

\* the tenant was registered, decommissioned with its subscriptions left at the broker,
\* and registered again: the second registration was answered 409 for every type and
\* ended active
C26_Witness ==
    /\ pc[1] = "done"
    /\ loc[1].op = "provision"
    /\ loc[1].result = "active"
    /\ Len(posts.answers) = 2 * Len(RoutingTypes)
    /\ \A k \in 1..Len(RoutingTypes) :
          /\ posts.answers[k].status = 201
          /\ posts.answers[Len(RoutingTypes) + k].status = 409
    /\ Cardinality(subscriptions) = Len(RoutingTypes)

\* the key has a row in odoo_entity_mappings
Mapped(table, key) == MappingRowsByNgsiId(table, key[1], key[2]) # <<>>

\* C27: a full_sync run cancelled at any await leaves odoo_entity_mappings as it is, no
\* step of a later run removes a row or changes the record id a row holds, and for an
\* entity that has a row the ERP call of a later run is update_record on the row's id:
\* create_record is issued only for keys without a row, so an entity mapped before the
\* cancellation does not get a second ERP record.
C27_AbortKeepsMappings ==
    [][/\ \A p \in Procs :
             /\ (pc[p] \notin {"idle", "done"} /\ loc'[p].result = "aborted") =>
                   UNCHANGED <<mappings, odoo, syncStatus>>
             /\ (pc[p] = "sync_erp" /\ pc'[p] = "sync_map" /\ Mapped(mappings, Key(p))) =>
                   /\ creates' = creates
                   /\ loc'[p].odoo_id =
                         MappingRowsByNgsiId(mappings, loc[p].tenant, loc[p].entity.id)[1].odoo_id
       /\ \A k \in Keys :
             /\ Mapped(mappings, k) =>
                   /\ Mapped(mappings', k)
                   /\ MappingRowsByNgsiId(mappings', k[1], k[2])[1].odoo_id =
                         MappingRowsByNgsiId(mappings, k[1], k[2])[1].odoo_id
                   /\ creates'[k] = creates[k]
             /\ creates'[k] > creates[k] => ~Mapped(mappings, k)]_vars

\* the first run was cancelled after it had mapped e1 (no status row was written), and
\* the run after it has synced e1 again: both calls returned record 1 and one create
\* was issued for e1
C27_Witness ==
    /\ opsLeft = MaxAbortRuns - 2
    /\ syncStatus["t1"] = NoStatus
    /\ loc[1].op = "full_sync"
    /\ loc[1].result # "aborted"
    /\ "e1" \in loc[1].ok
    /\ returned[<<"t1", "e1">>] = <<1, 1>>
    /\ creates[<<"t1", "e1">>] = 1
    /\ Mapped(mappings, <<"t1", "e1">>)

\* C28: handle_event answers an event name that is not a key of its handlers with
\* "ignored" at once: no ERP call is made, no synchronization is started and no store
\* is written for it; for a supported event every failure of the handler ends the call
\* with the outcome "error", and no call ends with an exception leaving handle_event.
C28_UnknownEventIgnored ==
    [][\A p \in Procs :
          (loc[p].op = "n8n" /\ pc[p] # "done") =>
             /\ loc[p].event \notin SupportedEvents =>
                   /\ UNCHANGED <<stores, creates, returned, raised, now>>
                   /\ pc'[p] = "done"
                   /\ loc'[p].result = "ignored"
                   /\ loc'[p].erp_calls = 0
                   /\ loc'[p].attempted = 0
                   /\ loc'[p].error = NoValue
             /\ (loc[p].event \in SupportedEvents /\ loc'[p].error # NoValue) =>
                   /\ pc'[p] = "done"
                   /\ loc'[p].result = "error"
             /\ pc'[p] = "done" =>
                   /\ loc'[p].result \in {"ignored", "success", "error"}
                   /\ loc'[p].result = "error" <=> loc'[p].error # NoValue
                   /\ loc'[p].result = "ignored" <=> loc[p].event \notin SupportedEvents]_vars

\* an event of an unsupported name has been answered "ignored" for a provisioned tenant,
\* after an earlier event of the tenant during which a call had failed: the ERP holds no
\* record
C28_Witness ==
    /\ pc[1] = "done"
    /\ loc[1].op = "n8n"
    /\ loc[1].event = "odoo.invoice.delete"
    /\ loc[1].result = "ignored"
    /\ tenantInfo["t1"] # NoRow
    /\ opsLeft = MaxWorkflowEvents - 2
    /\ faultsLeft = MaxFaults - 1
    /\ odoo[TenantDbName("t1")].records = {}

\* C29: sync_entity_to_odoo routes AgriParcel to product.template, Device and
\* WeatherStation to maintenance.equipment, Building to res.partner, EnergyMeter to
\* energy.meter and SolarPanel to energy.installation, and rejects every other declared
\* type, a missing one included, as unsupported before anything is read or written; the
\* record it creates is of the routed model.
C29_ClassifyTable ==
    [][\A p \in Procs :
          LET ty == loc'[p].entity.type
              expected ==
                  CASE ty = "AgriParcel" -> "product.template"
                    [] ty \in {"Device", "WeatherStation"} -> "maintenance.equipment"
                    [] ty = "Building" -> "res.partner"
                    [] ty = "EnergyMeter" -> "energy.meter"
                    [] ty = "SolarPanel" -> "energy.installation"
                    [] OTHER -> "Unsupported"
          IN /\ (pc[p] = "notify_loop" /\ loc'[p].attempted = loc[p].attempted + 1) =>
                   IF expected = "Unsupported"
                   THEN /\ pc'[p] = "notify_loop"
                        /\ loc'[p].errors = Append(loc[p].errors,
                                                  [what |-> loc'[p].entity.id,
                                                   err |-> "UnsupportedType"])
                        /\ UNCHANGED <<stores, creates>>
                   ELSE /\ pc'[p] = "sync_getdb"
                        /\ loc'[p].odoo_model = expected
                        /\ loc'[p].errors = loc[p].errors
             /\ (pc[p] = "sync_erp" /\ creates' # creates) =>
                   \E r \in odoo'[loc[p].db_name].records :
                       /\ r \notin odoo[loc[p].db_name].records
                       /\ r.model = expected]_vars

\* a WeatherStation has been synced to a maintenance.equipment record, and a later
\* notification carrying the entity without a type has been rejected as unsupported
C29_Witness ==
    /\ \E i \in 1..Len(mappings) :
          /\ mappings[i].ngsi_type = "WeatherStation"
          /\ mappings[i].odoo_model = "maintenance.equipment"
    /\ pc[1] = "done"
    /\ loc[1].entity.type = NoValue
    /\ loc[1].errors = <<[what |-> "e1", err |-> "UnsupportedType"]>>

\* C30: for every snapshot of a routed type _transform_to_odoo returns; the values hold
\* x_ngsi_id, the entity id, and name, which is the name attribute unwrapped (a bare
\* value, or the value of a Property) and the entity id when the attribute is absent;
\* the field of every absent attribute of the type holds the field's default (None, or
\* "production" for meter_type).
C30_TransformTotal ==
    \A p \in Procs :
        (pc[p] = "done" /\ loc[p].op = "transform") =>
            LET e == loc[p].entity
                v == loc[p].values
                field == [description |-> IF e.type = "Device" THEN "note" ELSE "description",
                          area |-> "x_area", cropType |-> "x_crop_type",
                          location |-> "x_location", serialNumber |-> "serial_no",
                          deviceType |-> "x_device_type", status |-> "x_status",
                          meterCode |-> "code", meterType |-> "meter_type", cups |-> "x_cups",
                          peakPower |-> "power_peak", orientation |-> "x_orientation",
                          tilt |-> "x_tilt", address |-> "street"]
            IN /\ loc[p].result = "returned"
               /\ v.x_ngsi_id = Str(e.id)
               /\ e.attrs["name"] = Null => v.name = Str(e.id)
               /\ e.attrs["name"] = Str("Field A") => v.name = Str("Field A")
               /\ e.attrs["name"] = Wrapped(Str("Field A")) => v.name = Str("Field A")
               /\ \A n \in AttrNames(e.type) :
                     e.attrs[n] = Null =>
                        v[field[n]] = IF n = "meterType" THEN Str("production") ELSE Null

\* no sync_entity_to_odoo call for the key is in progress
CallEnded(k) ==
    \A p \in Procs : ~(pc[p] \in UpsertPcs /\ Key(p) = k)

\* a mapping row of the tenant refers to the record
Referenced(t, r) ==
    \E i \in 1..Len(mappings) :
        /\ mappings[i].tenant_id = t
        /\ mappings[i].ngsi_id = r.created_for
        /\ mappings[i].odoo_id = r.id
        /\ mappings[i].odoo_model = r.model

\* C31: once the sync_entity_to_odoo calls for a key (tenant, entity id) have ended,
\* whether they returned or raised, every ERP record created for the key is referenced
\* by a mapping row of the tenant, and replaying the snapshot has issued no second
\* create_record for the key.
C31_CreatedRecordIsMapped ==
    \A k \in Keys :
        CallEnded(k) =>
            /\ creates[k] <= 1
            /\ odoo[TenantDbName(k[1])].exists =>
                  \A r \in odoo[TenantDbName(k[1])].records :
                      r.created_for = k[2] => Referenced(k[1], r)

\* no request is being handled
Quiescent == \A p \in Procs : pc[p] = "idle"

\* the mapping row refers to a record of the tenant's database that was created for
\* the row's entity
PointsIntoDatabase(row) ==
    LET db == odoo[TenantDbName(row.tenant_id)]
    IN /\ db.exists
       /\ \E r \in db.records :
             r.model = row.odoo_model /\ r.id = row.odoo_id /\ r.created_for = row.ngsi_id

\* C32: whenever no request is being handled, every row of odoo_entity_mappings refers
\* to a record that exists in the tenant's current ERP database and was created there
\* for the row's entity: no row points into a dropped database.
C32_MappingsPointIntoCurrentDatabase ==
    Quiescent => \A i \in 1..Len(mappings) : PointsIntoDatabase(mappings[i])

\* the provision request handled by p is past its check and its mark, about to make
\* one of the external calls
InExternalSteps(p) ==
    /\ loc[p].op = "provision"
    /\ pc[p] \in {"prov_dup", "prov_install", "prov_user"}

\* C33: two provision requests for the same tenant are never both in the external
\* provisioning steps: while one is between its mark and its save, no other is about to
\* call duplicate_database for the tenant's database name.
C33_OneProvisionProceeds ==
    \A p, q \in Procs :
        p # q /\ loc[p].tenant = loc[q].tenant /\ InExternalSteps(p) => pc[q] # "prov_dup"

\* an earlier provision request of the tenant failed after duplicate_database had
\* built the database, and a new provision request, running alone, is at its check;
\* the environment makes no further call fail
RetryStarts(p, t) ==
    /\ pc[p] = "prov_check"
    /\ loc[p].tenant = t
    /\ Alone(p)
    /\ tenantInfo[t].status = "error"
    /\ odoo[TenantDbName(t)].exists
    /\ faultsLeft = 0

\* C34: a provision request made for a tenant in status error whose database has been
\* duplicated, and none of whose external calls is failed by the environment, leads to
\* status active.
C34_RetryRecovers ==
    \A p \in Procs, t \in Tenants :
        RetryStarts(p, t) ~> tenantInfo[t].status = "active"

\* C35: in every state, a row of odoo_tenant_info with status active names a database
\* that exists at the ERP.
C35_ActiveHasDatabase ==
    \A t \in Tenants :
        tenantInfo[t].status = "active" =>
            /\ tenantInfo[t].database \in DbNames
            /\ odoo[tenantInfo[t].database].exists

\* the subscriptions register_tenant_subscriptions leaves for the tenant
TenantSubscriptions(t) == {<<t, RoutingTypes[k]>> : k \in 1..Len(RoutingTypes)}

\* C36: a delete_database call that fails ends the decommission with an error in the
\* same step, with no row of odoo_tenant_info and no subscription changed, and the
\* request makes no further step but its response; a tenant's row is removed only by a
\* decommission whose delete_database call has returned.
C36_FailedDropChangesNothing ==
    [][/\ \A p \in Procs :
             pc[p] = "del_drop" /\ Moved(p) /\ loc'[p].steps = loc[p].steps =>
                /\ pc'[p] = "done"
                /\ loc'[p].result = "error"
                /\ UNCHANGED <<tenantInfo, subscriptions, odoo>>
       /\ \A p \in Procs :
             loc[p].op = "delete" /\ pc[p] = "done" /\ Moved(p) =>
                /\ pc'[p] = "idle"
                /\ UNCHANGED <<tenantInfo, subscriptions>>
       /\ \A t \in Tenants :
             tenantInfo[t] # NoRow /\ tenantInfo'[t] = NoRow =>
                \E p \in Procs :
                   /\ loc[p].op = "delete"
                   /\ loc[p].tenant = t
                   /\ Moved(p)
                   /\ loc[p].steps = <<"drop">>]_vars

\* a decommission of a provisioned tenant has ended with an error at delete_database:
\* the row, the database and the six subscriptions are in place
C36_Witness ==
    \E p \in Procs :
        /\ pc[p] = "done"
        /\ loc[p].op = "delete"
        /\ loc[p].result = "error"
        /\ loc[p].steps = <<>>
        /\ tenantInfo[loc[p].tenant].status = "active"
        /\ odoo[TenantDbName(loc[p].tenant)].exists
        /\ TenantSubscriptions(loc[p].tenant) \subseteq subscriptions

\* the handler p is handling a notification whose subscription identifier was parsed
Notified(p) == loc[p].op = "notify" /\ loc[p].tenant # NoValue

\* where the loop over notification.data stands: at[1] entities attempted, at[2] of
\* them finished
LoopAt(p) ==
    CASE pc[p] = "notify_loop" -> <<loc[p].i - 1, loc[p].i - 1>>
      [] pc[p] \in UpsertPcs -> <<loc[p].i, loc[p].i - 1>>
      [] OTHER -> <<loc[p].n, loc[p].n>>

\* C37: a notification handler whose subscription identifier parses works for the
\* parsed tenant only and goes through the batch position by position: the entities
\* attempted are those up to its position, each once, every one of them finished has
\* been counted either as synced or as an error, and the handler ends with status
\* processed, all entities attempted and synced + errors = len(data); no step moves
\* the position back, skips one, or changes the tenant.
C37_BatchAttemptedOnce ==
    [][\A p \in Procs :
          Notified(p) =>
             /\ loc[p].tenant = ExtractTenantFromSubscription(loc[p].subscription_id)
             /\ loc[p].i <= loc[p].n + 1
             /\ loc[p].attempted = LoopAt(p)[1]
             /\ loc[p].synced + Len(loc[p].errors) = LoopAt(p)[2]
             /\ Len(loc[p].errors) = loc[p].failed
             /\ pc[p] = "done" => loc[p].result = "processed"
             /\ Moved(p) /\ pc[p] # "done" =>
                   /\ loc'[p].tenant = loc[p].tenant
                   /\ loc'[p].n = loc[p].n
                   /\ loc'[p].i \in {loc[p].i, loc[p].i + 1}
                   /\ loc'[p].attempted \in {loc[p].attempted, loc[p].attempted + 1}
                   /\ pc[p] \in UpsertPcs => loc[p].db_name \in {NoValue, TenantDbName(loc[p].tenant)}]_vars

\* a notification of two entities has been answered: the first entity failed, the
\* second was synced after it
C37_Witness ==
    \E p \in Procs :
        /\ Notified(p)
        /\ pc[p] = "done"
        /\ loc[p].n = 2
        /\ loc[p].attempted = 2
        /\ loc[p].synced = 1
        /\ Len(loc[p].errors) = 1
        /\ loc[p].errors[1].err = "DatabaseFailure"
        /\ loc[p].result = "processed"
        /\ creates[<<loc[p].tenant, "e1">>] = 2

\* the keys (tenant, entity id) that have a row in the table
MappedKeys(table) == {k \in Keys : Mapped(table, k)}

\* C38: no step of any operation removes a key from odoo_entity_mappings or shortens
\* the table, and a step that adds a key is the mapping write of a sync_entity_to_odoo
\* call for that key whose create_record or update_record has returned, the record it
\* returned being in the tenant's database.
C38_MappingsOnlyGrow ==
    [][/\ MappedKeys(mappings) \subseteq MappedKeys(mappings')
       /\ Len(mappings') >= Len(mappings)
       /\ \A k \in MappedKeys(mappings') \ MappedKeys(mappings) :
             \E p \in Procs :
                /\ pc[p] = "sync_map"
                /\ Moved(p)
                /\ Key(p) = k
                /\ loc[p].odoo_id > 0
                /\ RecordExists(loc[p].db_name, loc[p].odoo_model, loc[p].odoo_id)
                /\ mappings'[Len(mappings')].odoo_id = loc[p].odoo_id]_vars

\* a tenant that was synced, decommissioned and provisioned again: its mapping row is
\* still there, its new database holds no record
C38_Witness ==
    /\ Quiescent
    /\ opsLeft = 0
    /\ MappedKeys(mappings) = {<<"t1", "e1">>}
    /\ tenantInfo["t1"].status = "active"
    /\ odoo[TenantDbName("t1")].exists
    /\ odoo[TenantDbName("t1")].records = {}

\* the handler p takes a step of handle_odoo_webhook
HandlesErpEvent(p) ==
    Moved(p) /\ (loc[p].op = "odoo_webhook" \/ loc'[p].op = "odoo_webhook")

====
